---- MODULE Spec2Model ----
(***************************************************************************)
(* Steam Playtime Farmer: the reconnection supervisor                      *)
(* (src/modules/connection-manager.js), the account orchestrator           *)
(* (src/modules/steam-client.js) and the part of the farming manager       *)
(* (src/modules/farming-manager.js) that drives them.                      *)
(*                                                                         *)
(* The .NET farmer (src/steam-playtime-farmer/SteamAccount.cs) is modelled *)
(* further down, as threads that share one account.                        *)
(*                                                                         *)
(* Every handler of the JavaScript code runs to completion on one event    *)
(* loop, so each handler is one atomic action.  A handler is written as an *)
(* operator from a "world" record (all mutable state) to the world after   *)
(* it, so that nested calls compose in the order the code makes them.      *)
(***************************************************************************)
EXTENDS Integers, Sequences, FiniteSets, Bags, TLC

VARIABLES
    connectionState,   \* connection-manager.js: the connectionState object
    timers,            \* callbacks scheduled with setTimeout and not yet run
    isFarming,         \* steam-client.js: isFarming
    currentGames,      \* steam-client.js: currentGames
    lastLoginDetails,  \* steam-client.js: lastLoginDetails ("null" or "set")
    sessionFile,       \* session-manager: content of the session file
    client,            \* the steam-user client: logged on? logon in flight?
    farmingHandlers,   \* farming-manager.js: which handlers of setupFarmingEventHandlers are registered
    farmingRL,         \* farming-manager.js: the farming command line is open
    atMenu,            \* the main menu is shown (returnToMainMenu was called)
    out,               \* history: notifications published by the last handler
    last,              \* history: the last handler that ran, and what it returned
    stopped,           \* history: stopFarming returned and login was not called since
    account,           \* SteamAccount.cs: the fields of the account, its files, the clock
    callbackThread,    \* SteamAccount.cs: the thread of RunAsync and of the callbacks
    tickTasks,         \* SteamAccount.cs: the CheckTargets tasks started by StartFarming
    cache,             \* session-manager.js: the session file, and the last call made
    bus,               \* event-manager.js: the registry of handlers, and the last call made
    fleet              \* Program.cs: Main, the token, the clock, the files and the accounts

farmerVars == <<connectionState, timers, isFarming, currentGames, lastLoginDetails,
                sessionFile, client, farmingHandlers, farmingRL, atMenu,
                out, last, stopped>>

accountVars == <<account, callbackThread, tickTasks>>

vars == <<farmerVars, accountVars, cache, bus, fleet>>

(***************************************************************************)
(* Program constants (src/app.config.js) and the bound of the model.       *)
(***************************************************************************)
MaxReconnectAttempts == 10
InitialDelay == 3000
MaxDelay == 60000
\* backoffMultiplier 1.5 as the fraction 3/2
BackoffNum == 3
BackoffDen == 2

\* at most this many setTimeout callbacks are pending at once: in the
\* specification of the connection manager alone, and in that of the whole program
MaxTimers == 2
MaxPending == 1
\* the clock of the account stops after MaxMinutes minutes
MaxMinutes == 2
\* the account logs on at most MaxLogins times
MaxLogins == 1
\* at most this many calls of on are made on the event manager
MaxSubscriptions == 3

ConfigGames == {730, 440}
DisconnectReasons == {"NoConnection"}

(***************************************************************************)
(* Exact arithmetic for the delay: a delay is a reduced fraction of        *)
(* milliseconds (1.5^a is a dyadic rational, exact in a double).           *)
(***************************************************************************)
RECURSIVE Gcd(_, _)
Gcd(a, b) == IF b = 0 THEN a ELSE Gcd(b, a % b)

Rat(n, d) == LET g == Gcd(n, d) IN [num |-> n \div g, den |-> d \div g]

RatLeq(x, y) == x.num * y.den <= y.num * x.den

RECURSIVE Pow(_, _)
Pow(b, e) == IF e = 0 THEN 1 ELSE b * Pow(b, e - 1)

\* Math.pow(appConfig.steam.reconnect.backoffMultiplier, attempts)
MathPow(attempts) == Rat(Pow(BackoffNum, attempts), Pow(BackoffDen, attempts))

\* Math.min(a, b)
MathMin(a, b) == IF RatLeq(a, b) THEN a ELSE b

\* the delay with the cap forgotten, and with the exponent off by one
BackoffDelayNoCap(reconnectDelay, attempts) ==
    Rat(reconnectDelay * MathPow(attempts).num, MathPow(attempts).den)

BackoffDelayOffByOne(reconnectDelay, attempts) ==
    MathMin(Rat(reconnectDelay * MathPow(attempts + 1).num, MathPow(attempts + 1).den),
            Rat(MaxDelay, 1))

\* connection-manager.js 85-89
BackoffDelay(reconnectDelay, attempts) ==
    MathMin(Rat(reconnectDelay * MathPow(attempts).num, MathPow(attempts).den),
            Rat(MaxDelay, 1))

(***************************************************************************)
(* Records.                                                                *)
(***************************************************************************)
InitConnectionState ==
    [connected            |-> FALSE,
     reconnecting         |-> FALSE,
     reconnectAttempts    |-> 0,
     maxReconnectAttempts |-> MaxReconnectAttempts,
     reconnectDelay       |-> InitialDelay,
     accountName          |-> "null",
     lastDisconnectReason |-> "null",
     reconnectFunc        |-> "null"]

\* A pending setTimeout callback of attemptReconnect.  fn and delay are what the
\* closure and the timer hold; k is the attempt number announced when it was
\* scheduled; stopped is history (stopReconnect was called while the timer was
\* pending).  The pending timers form a bag: two of them may be equal.
Timer(fn, k, delay) ==
    [fn |-> fn, k |-> k, delay |-> delay, stopped |-> FALSE]

NoTimer == [fn |-> "null", k |-> 0, delay |-> Rat(0, 1), stopped |-> FALSE]

Note(ev, attempt, max, delay, reason) ==
    [ev |-> ev, attempt |-> attempt, max |-> max, delay |-> delay, reason |-> reason]

Plain(ev) == Note(ev, 0, 0, Rat(0, 1), "null")

\* setTimeout(callback, delay)
SetTimeout(b, t) == b (+) SetToBag({t})

\* a pending timer fires and is gone
Fired(b, t) == b (-) SetToBag({t})

MarkStopped(t) == [t EXCEPT !.stopped = TRUE]

\* the number of notifications ev in a sequence of notifications
Count(s, ev) == Cardinality({i \in 1..Len(s) : s[i].ev = ev})

\* the world a handler starts in: the state, nothing published, nothing returned
World ==
    [cs |-> connectionState, timers |-> timers, isFarming |-> isFarming,
     currentGames |-> currentGames, lastLoginDetails |-> lastLoginDetails,
     sessionFile |-> sessionFile, client |-> client,
     farmingHandlers |-> farmingHandlers, farmingRL |-> farmingRL, atMenu |-> atMenu,
     out |-> <<>>, ret |-> "void", stopped |-> stopped]

Emit(w, n) == [w EXCEPT !.out = Append(@, n)]

(***************************************************************************)
(* connection-manager.js                                                   *)
(***************************************************************************)
\* setState (41-49): merge the given properties; no onStateChanged is registered
SetState(w, newState) ==
    [w EXCEPT !.cs = [f \in DOMAIN w.cs |->
                        IF f \in DOMAIN newState THEN newState[f] ELSE w.cs[f]]]

\* setAccountName (55-57)
SetAccountName(w, name) == [w EXCEPT !.cs.accountName = name]

\* callbacks.onReconnecting = handleReconnecting (steam-client.js 52-55)
HandleReconnecting(w, attempt, maxAttempts, delay) ==
    Emit(w, Note("reconnecting", attempt, maxAttempts, delay, "null"))

\* callbacks.onReconnected = handleReconnected (steam-client.js 60-63)
HandleReconnected(w) == Emit(w, Plain("reconnected"))

\* callbacks.onReconnectFailed = handleReconnectFailed (steam-client.js 69-72);
\* the farming manager's reconnectFailed handler (farming-manager.js 142-148)
\* returns to the main menu
HandleReconnectFailed(w, reason) ==
    LET w1 == Emit(w, Note("reconnectFailed", 0, 0, Rat(0, 1), reason))
    IN  IF w1.farmingHandlers = "all" THEN [w1 EXCEPT !.atMenu = TRUE] ELSE w1

\* attemptReconnect (81-109), up to the setTimeout call
AttemptReconnect(w, reconnectFunc) ==
    IF ~w.cs.reconnecting THEN w
    ELSE LET delay == BackoffDelay(w.cs.reconnectDelay, w.cs.reconnectAttempts)
             w1 == HandleReconnecting(w, w.cs.reconnectAttempts + 1,
                                      w.cs.maxReconnectAttempts, delay)
         IN  [w1 EXCEPT !.timers =
                 SetTimeout(@, Timer(reconnectFunc, w.cs.reconnectAttempts + 1, delay))]

\* startReconnect with the guard on reconnecting forgotten
StartReconnectUnguarded(w, reconnectFunc) ==
    LET w1 == [w EXCEPT !.cs.reconnecting = TRUE,
                        !.cs.reconnectAttempts = 0,
                        !.cs.reconnectFunc = reconnectFunc]
    IN  [AttemptReconnect(w1, reconnectFunc) EXCEPT !.ret = "true"]

\* startReconnect (64-75)
StartReconnect(w, reconnectFunc) ==
    IF w.cs.reconnecting THEN [w EXCEPT !.ret = "false"]
    ELSE LET w1 == [w EXCEPT !.cs.reconnecting = TRUE,
                             !.cs.reconnectAttempts = 0,
                             !.cs.reconnectFunc = reconnectFunc]
         IN  [AttemptReconnect(w1, reconnectFunc) EXCEPT !.ret = "true"]

\* handleReconnectSuccess (114-123)
HandleReconnectSuccess(w) ==
    HandleReconnected([w EXCEPT !.cs.connected = TRUE,
                                !.cs.reconnecting = FALSE,
                                !.cs.reconnectAttempts = 0])

\* handleReconnectFailure (128-145)
HandleReconnectFailure(w) ==
    IF w.cs.reconnectAttempts >= w.cs.maxReconnectAttempts
    THEN HandleReconnectFailed([w EXCEPT !.cs.reconnecting = FALSE],
                               w.cs.lastDisconnectReason)
    ELSE IF w.cs.reconnectFunc # "null"
         THEN AttemptReconnect(w, w.cs.reconnectFunc)
         ELSE w

\* stopReconnect (161-168): no clearTimeout; the pending callbacks stay scheduled
StopReconnect(w) ==
    LET w1 == [w EXCEPT !.timers = BagOfAll(MarkStopped, @)]
    IN  IF w1.cs.reconnecting /\ w1.cs.reconnectFunc # "null"
        THEN [w1 EXCEPT !.cs.reconnecting = FALSE,
                        !.cs.reconnectAttempts = 0,
                        !.cs.reconnectFunc = "null"]
        ELSE w1

\* reset that only stops the reconnection and leaves the state object
ResetStopsOnly(w) == StopReconnect(w)

\* reset (173-187)
Reset(w) ==
    LET w1 == StopReconnect(w)
    IN  [w1 EXCEPT !.cs = [connected            |-> FALSE,
                           reconnecting         |-> FALSE,
                           reconnectAttempts    |-> 0,
                           maxReconnectAttempts |-> w1.cs.maxReconnectAttempts,
                           reconnectDelay       |-> w1.cs.reconnectDelay,
                           accountName          |-> w1.cs.accountName,
                           lastDisconnectReason |-> "null",
                           reconnectFunc        |-> "null"]]

(***************************************************************************)
(* steam-client.js: logging in.  The steam-user client is the session      *)
(* provider; the model keeps of it whether it is logged on (client.steamID)*)
(* and which request is in flight: "none", a logon made with the saved     *)
(* "session" or with the "password", or a "logoff".                        *)
(***************************************************************************)
Offline == [steamID |-> FALSE, logon |-> "none"]

Busy(w) == w.client.steamID \/ w.client.logon # "none"

\* client.logOn(details): throws when the client is already logged on or has a
\* request in flight; if not, the logon is in flight
LogOn(w, via) ==
    IF Busy(w)
    THEN [w |-> w, threw |-> TRUE]
    ELSE [w |-> [w EXCEPT !.client.logon = via], threw |-> FALSE]

\* login (302-339): the saved session is used when there is one
Login(w) ==
    LET w1 == [w EXCEPT !.lastLoginDetails = "set"]
    IN  LogOn(w1, IF w1.sessionFile = "saved" THEN "session" ELSE "password")

\* reconnect (224-252): the saved session first, then the credentials
Reconnect(w) ==
    LET bySession == LogOn(w, "session")
        w2 == IF w.sessionFile = "saved" THEN [w EXCEPT !.sessionFile = "none"] ELSE w
    IN  IF w.sessionFile = "saved" /\ ~bySession.threw
        THEN [w |-> bySession.w, threw |-> FALSE, ret |-> "true"]
        ELSE IF w2.lastLoginDetails # "null"
             THEN LET r == Login(w2)
                  IN  [w |-> r.w, threw |-> r.threw,
                       ret |-> IF r.threw THEN "throw" ELSE "true"]
             ELSE [w |-> w2, threw |-> FALSE, ret |-> "false"]

(***************************************************************************)
(* The reconnect function a timer runs: () => reconnect() (198),           *)
(* () => login(...) (214-216), or "client", a function supplied by some    *)
(* other caller of the connection manager, which returns true, returns     *)
(* false or throws (outcome).                                              *)
(***************************************************************************)
RunReconnectFunc(w, fn, outcome) ==
    CASE fn = "reconnect" -> Reconnect(w)
      [] fn = "login" ->
            LET r == Login(w)
            IN  [w |-> r.w, threw |-> r.threw, ret |-> IF r.threw THEN "throw" ELSE "void"]
      [] OTHER -> [w |-> w, threw |-> outcome = "throw", ret |-> outcome]

\* the setTimeout callback of attemptReconnect (97-108), for the pending timer t;
\* reconnectFunc() is called once, and r is its outcome
TimerCallback(w, t, outcome) ==
    LET w1 == [w EXCEPT !.timers = Fired(@, t),
                        !.cs.reconnectAttempts = @ + 1]
    IN  CHOOSE after \in
            {IF r.threw
             THEN HandleReconnectFailure([r.w EXCEPT !.ret = "throw"])
             ELSE [r.w EXCEPT !.ret = r.ret] : r \in {RunReconnectFunc(w1, t.fn, outcome)}} :
            TRUE

(***************************************************************************)
(* steam-client.js: the handlers of the client's events, with the handlers *)
(* the farming manager subscribes on the event manager (dispatch is        *)
(* synchronous, so they run inside the publishing handler).                *)
(***************************************************************************)
\* steamClient.startFarming (403-419); the gamesPlayed call is a later timer
StartFarmingGames(w, gameIds) == [w EXCEPT !.currentGames = gameIds]

\* handleReconnected's subscribers: farming-manager.js 133-139
OnReconnected(w) ==
    IF w.farmingHandlers = "all" THEN StartFarmingGames(w, ConfigGames) ELSE w

\* the loggedOn subscriber: farming-manager.js 114-125, showFarmingInterface 182-200
OnLoggedOn(w) ==
    IF w.farmingHandlers = "all"
    THEN [StartFarmingGames(w, ConfigGames) EXCEPT !.farmingRL = TRUE, !.atMenu = FALSE]
    ELSE w

\* the error subscriber: farming-manager.js 151-165; it is never removed itself
OnError(w) ==
    IF w.farmingHandlers = "none" THEN w
    ELSE [w EXCEPT !.farmingHandlers = "errorOnly",
                   !.atMenu = IF w.cs.reconnecting THEN @ ELSE TRUE]

\* saveSessionData (131-143): a session is saved when the client holds a session key
SaveSessionData(w, hasKey) ==
    IF hasKey THEN [w EXCEPT !.sessionFile = "saved"] ELSE w

\* handleLoggedOn (93-125)
HandleLoggedOn(w, hasKey) ==
    LET w1 == SaveSessionData(SetAccountName(w, "account"), hasKey)
        w2 == SetState(w1, [connected |-> TRUE, reconnecting |-> FALSE,
                            reconnectAttempts |-> 0])
        w3 == IF w2.cs.reconnecting
              THEN OnReconnected(HandleReconnectSuccess(w2))
              ELSE w2
        w4 == [w3 EXCEPT !.isFarming = TRUE]
    IN  OnLoggedOn(Emit(w4, Plain("loggedOn")))

\* handleError (166-175)
HandleError(w) == OnError(Emit(w, Plain("error")))

\* handleDisconnected (182-200)
HandleDisconnected(w, reason) ==
    LET w1 == SetState(w, [connected |-> FALSE, lastDisconnectReason |-> reason])
        w2 == Emit(w1, Plain("disconnected"))
    IN  IF w2.isFarming /\ w2.lastLoginDetails # "null"
        THEN [StartReconnect(w2, "reconnect") EXCEPT !.ret = "void"]
        ELSE w2

\* handleSessionExpired (205-218)
HandleSessionExpired(w) ==
    LET w1 == [w EXCEPT !.sessionFile = "none"]
    IN  IF w1.isFarming /\ w1.lastLoginDetails # "null"
        THEN [StartReconnect(w1, "login") EXCEPT !.ret = "void"]
        ELSE w1

\* the public login (369-376)
PublicLogin(w) ==
    Login(Reset([w EXCEPT !.isFarming = FALSE, !.currentGames = {}, !.stopped = FALSE]))

\* stopFarming (425-440)
StopFarming(w) ==
    LET w1 == IF w.client.steamID THEN [w EXCEPT !.client.logon = "logoff"] ELSE w
    IN  [w1 EXCEPT !.isFarming = FALSE, !.currentGames = {}, !.stopped = TRUE,
                   !.ret = "true"]

\* farming-manager.js startFarming (44-82): refused while farming
FarmingStart(w) ==
    IF w.isFarming
    THEN [w EXCEPT !.ret = "rejected", !.atMenu = TRUE]
    ELSE LET w1 == [w EXCEPT !.farmingHandlers = "all", !.atMenu = FALSE]
         IN  [PublicLogin(w1).w EXCEPT !.ret = "accepted"]

(***************************************************************************)
(* steam-playtime-farmer/SteamAccount.cs: one account of the .NET farmer.  *)
(* The callback thread (RunAsync and the handlers the CallbackManager      *)
(* runs) and the CheckTargets tasks started by StartFarming run            *)
(* concurrently and share the fields of the object, the state file and its *)
(* temp file, without a lock.  A step of a thread is one access to that    *)
(* shared state; the steps of different threads interleave.                *)
(*                                                                         *)
(* Time is counted in seconds and passes in steps of TickDelay.            *)
(***************************************************************************)
\* config.Games of the account (AppIds)
AppIds == {1, 2}

\* await Task.Delay(60000), in seconds
TickDelay == 60

\* _config.TargetHours[appIdStr] * 3600
SecondsPerHour == 3600

\* the targets a config may give: none, one for game 1, one for each game
TargetConfigs == {<<>>, 1 :> 1, 1 :> 1 @@ 2 :> 1}

\* the ledgers a state file may hold when the program starts
StartLedgers == {<<>>, 1 :> 3540, 1 :> 3540 @@ 2 :> 3540}

\* a file: absent, holding a complete ledger, or opened by File.WriteAllText
\* (truncated) and not written yet
Missing == [kind |-> "missing", data |-> <<>>]
Ledger(d) == [kind |-> "ledger", data |-> d]
Partial == [kind |-> "partial", data |-> <<>>]

\* LoadState (334-350): a file that is absent or cannot be read or parsed
\* gives a new, empty FarmingState
LoadState(file) == IF file.kind = "ledger" THEN file.data ELSE <<>>

\* Dictionary.GetValueOrDefault(appId, 0)
GetValueOrDefault(d, appId) == IF appId \in DOMAIN d THEN d[appId] ELSE 0

Restrict(d, keys) == [k \in DOMAIN d \cap keys |-> d[k]]

\* the local variables of a thread: where it is, where it goes on after
\* SaveState, the FarmingState it is about to write, gamesToRemove, whether it
\* found no game left, the time its Task.Delay ends, its FileStream on the
\* state file, and the FarmingState that CheckTargets loaded (242)
Thread(pc) ==
    [pc |-> pc, after |-> "none", state |-> <<>>, gamesToRemove |-> {},
     stopping |-> FALSE, wake |-> 0, handle |-> "none", loaded |-> <<>>]

\* the account before RunAsync: the constructor has run (22-45)
NewAccount(targetHours, ledger) ==
    [isRunning         |-> FALSE,
     cancelled         |-> FALSE,
     games             |-> AppIds,
     targetHours       |-> targetHours,
     farmingStartTimes |-> <<>>,
     stateFile         |-> IF ledger = <<>> THEN Missing ELSE Ledger(ledger),
     tempFile          |-> Missing,
     client            |-> "disconnected",
     gamesPlayed       |-> {},
     now               |-> 0,
     farmed            |-> [g \in AppIds |-> 0],
     loginFailed       |-> FALSE,
     initial           |-> [g \in AppIds |-> GetValueOrDefault(ledger, g)]]

\* a step of a thread gives the shared state and the thread's own state
Step(a, t) == [a |-> a, t |-> t]

\* SaveState (288-320) without line 305: the start times are left as they are
SaveStateComputeNoReset(a, t) ==
    LET existingState == LoadState(a.stateFile)
        started == DOMAIN a.farmingStartTimes
        kept == {g \in DOMAIN existingState : g \notin started /\ g \in a.games}
        state == [g \in started \cup kept |->
                    IF g \in started
                    THEN GetValueOrDefault(existingState, g) + (a.now - a.farmingStartTimes[g])
                    ELSE existingState[g]]
    IN  Step(a, [t EXCEPT !.state = state, !.pc = "saveWrite"])

\* SaveState (288-320): the FarmingState to write, and the start times reset
SaveStateCompute(a, t) ==
    LET existingState == LoadState(a.stateFile)
        started == DOMAIN a.farmingStartTimes
        kept == {g \in DOMAIN existingState : g \notin started /\ g \in a.games}
        state == [g \in started \cup kept |->
                    IF g \in started
                    THEN GetValueOrDefault(existingState, g)
                         + (a.now - a.farmingStartTimes[g])
                    ELSE existingState[g]]
    IN  Step([a EXCEPT !.farmingStartTimes = [g \in started |-> a.now]],
             [t EXCEPT !.state = state, !.pc = "saveWrite"])

\* SaveState (323-325): File.WriteAllText(tempFile, json)
SaveStateWrite(a, t) ==
    Step([a EXCEPT !.tempFile = Ledger(t.state)], [t EXCEPT !.pc = "saveMove"])

\* SaveState (326): File.Move(tempFile, _stateFile, true).  It throws when the
\* temp file is gone (another SaveState moved it) and, where the system does not
\* let an open file be replaced, when a thread has the state file open; open
\* says whether one has, replace whether the system lets it.  The exception is
\* caught (328-331).
SaveStateMove(a, t, open, replace) ==
    IF a.tempFile.kind = "missing" \/ (open /\ ~replace)
    THEN Step(a, [t EXCEPT !.pc = t.after, !.state = <<>>])
    ELSE Step([a EXCEPT !.stateFile = a.tempFile, !.tempFile = Missing],
              [t EXCEPT !.pc = t.after, !.state = <<>>])

\* SaveState run from start to end by one thread, no other thread in between
SaveState(a) ==
    LET s1 == SaveStateCompute(a, Thread("save"))
        s2 == SaveStateWrite(s1.a, s1.t)
    IN  SaveStateMove(s2.a, s2.t, FALSE, TRUE).a

\* CleanupCompletedGames (356-363): the FarmingState to write
CleanupLoad(a, t) ==
    LET state == LoadState(a.stateFile)
    IN  Step(a, [t EXCEPT !.state = Restrict(state, DOMAIN state \ t.gamesToRemove),
                          !.pc = "cleanupOpen"])

\* CleanupCompletedGames (364): File.WriteAllText(_stateFile, json) opens the
\* state file itself and truncates it.  Where a file being written cannot be
\* opened again it throws when another thread has it open (open, shared); the
\* exception is caught (368-371).
CleanupOpen(a, t, open, shared) ==
    IF open /\ ~shared
    THEN Step(a, [t EXCEPT !.pc = IF t.stopping THEN "done" ELSE "save",
                           !.after = "loop", !.state = <<>>])
    ELSE Step([a EXCEPT !.stateFile = Partial],
              [t EXCEPT !.handle = "open", !.pc = "cleanupWrite"])

\* CleanupCompletedGames (364): the text is written and the file closed; a
\* file that was replaced meanwhile keeps the replacement, the text goes to the
\* file that is no longer there
CleanupWrite(a, t) ==
    Step(IF t.handle = "orphan" THEN a ELSE [a EXCEPT !.stateFile = Ledger(t.state)],
         [t EXCEPT !.handle = "none", !.state = <<>>, !.after = "loop",
                   !.pc = IF t.stopping THEN "done" ELSE "save"])

\* CheckTargets (245-260) with the comparison > in place of >=
CompletedStrictly(state, games, targetHours) ==
    {appId \in games :
        /\ appId \in DOMAIN targetHours
        /\ GetValueOrDefault(state, appId) > targetHours[appId] * SecondsPerHour}

\* CheckTargets (245-260): gamesToRemove
Completed(state, games, targetHours) ==
    {appId \in games :
        /\ appId \in DOMAIN targetHours
        /\ GetValueOrDefault(state, appId) >= targetHours[appId] * SecondsPerHour}

\* CheckTargets (238): while (_isRunning), then the Task.Delay begins (240)
CheckTargetsLoop(a, t) ==
    IF a.isRunning
    THEN Step(a, [t EXCEPT !.pc = "delay", !.wake = a.now + TickDelay])
    ELSE Step(a, [t EXCEPT !.pc = "done"])

\* CheckTargets (242-260): the delay is over; the state is loaded and the
\* targets are checked
CheckTargetsCheck(a, t) ==
    LET state == LoadState(a.stateFile)
        gamesToRemove == Completed(state, a.games, a.targetHours)
    IN  Step(a, [t EXCEPT !.loaded = state,
                          !.gamesToRemove = gamesToRemove,
                          !.stopping = FALSE,
                          !.after = "loop",
                          !.pc = IF gamesToRemove # {} THEN "remove" ELSE "save"])

\* UpdateGamesPlayed (209-234): the games sent to Steam; a message sent while
\* the client is not logged on reaches nobody
UpdateGamesPlayed(a) ==
    IF a.client = "loggedOn" THEN [a EXCEPT !.gamesPlayed = a.games] ELSE a

\* CheckTargets (262-279) without line 273: the flag is left as it is
CheckTargetsRemoveKeepsRunning(a, t) ==
    LET a1 == [a EXCEPT !.games = @ \ t.gamesToRemove,
                        !.farmingStartTimes =
                            Restrict(@, DOMAIN @ \ t.gamesToRemove)]
    IN  IF a1.games = {}
        THEN Step(a1, [t EXCEPT !.stopping = TRUE, !.pc = "save", !.after = "cleanupLoad"])
        ELSE Step(UpdateGamesPlayed(a1), [t EXCEPT !.pc = "cleanupLoad"])

\* CheckTargets (262-279): the completed games are dropped
CheckTargetsRemove(a, t) ==
    LET a1 == [a EXCEPT !.games = @ \ t.gamesToRemove,
                        !.farmingStartTimes =
                            Restrict(@, DOMAIN @ \ t.gamesToRemove)]
    IN  IF a1.games = {}
        THEN Step([a1 EXCEPT !.isRunning = FALSE],
                  [t EXCEPT !.stopping = TRUE, !.pc = "save", !.after = "cleanupLoad"])
        ELSE Step(UpdateGamesPlayed(a1), [t EXCEPT !.pc = "cleanupLoad"])

\* RunAsync (64-69)
RunAsync(a, t) ==
    Step([a EXCEPT !.isRunning = TRUE, !.client = "connecting"], [t EXCEPT !.pc = "loop"])

\* RunAsync (71-83): the loop is left, the finally block begins
RunAsyncFinally(a, t) ==
    Step(a, [t EXCEPT !.pc = "save", !.after = "disconnect"])

\* RunAsync (84): _client.Disconnect()
RunAsyncDisconnect(a, t) ==
    Step([a EXCEPT !.client = "disconnected", !.gamesPlayed = {}], [t EXCEPT !.pc = "done"])

\* OnConnected (89-100): _user.LogOn
OnConnected(a, t) ==
    Step([a EXCEPT !.client = "loggingOn"], t)

\* OnDisconnected (102-105): SaveState first
OnDisconnected(a, t) ==
    Step([a EXCEPT !.client = "disconnected", !.gamesPlayed = {}],
         [t EXCEPT !.pc = "save", !.after = "reset"])

\* OnDisconnected (107-111)
OnDisconnectedReset(a, t) ==
    Step([a EXCEPT !.farmingStartTimes = [g \in DOMAIN @ |-> a.now]],
         [t EXCEPT !.pc = "sleep"])

\* OnDisconnected (113-116) without the test of line 115: Connect in any case
OnDisconnectedConnectAlways(a, t) ==
    Step([a EXCEPT !.client = "connecting"], [t EXCEPT !.pc = "loop"])

\* OnDisconnected (113-116): Thread.Sleep(5000), shorter than a step of the
\* clock, then Connect while the account runs
OnDisconnectedConnect(a, t) ==
    Step(IF a.isRunning THEN [a EXCEPT !.client = "connecting"] ELSE a,
         [t EXCEPT !.pc = "loop"])

\* StartFarming (181-207), up to Task.Run(CheckTargets)
StartFarming(a) ==
    LET a1 == [a EXCEPT !.farmingStartTimes =
                  [g \in DOMAIN @ \cup a.games |->
                      IF g \in DOMAIN @ THEN @[g] ELSE a.now]]
    IN  UpdateGamesPlayed(a1)

\* OnLoggedOn without line 138: a failed login leaves the account running
OnLoggedOnKeepsRunning(a, t, result) ==
    CASE result = "OK" ->
            Step(StartFarming([a EXCEPT !.client = "loggedOn",
                                        !.farmingStartTimes = [g \in DOMAIN @ |-> a.now]]),
                 t)
      [] result = "NeedCode" -> Step([a EXCEPT !.client = "closing"], [t EXCEPT !.pc = "readLine"])
      [] OTHER -> Step([a EXCEPT !.client = "closing", !.loginFailed = TRUE], t)

\* Console.ReadLine (126, 133) returned: the code is stored, the handler returns
ReadLineReturns(a, t) == Step(a, [t EXCEPT !.pc = "loop"])

\* SteamAccount.OnLoggedOn (119-151); result is callback.Result: "OK", "NeedCode"
\* (AccountLogonDenied, AccountLoginDeniedNeedTwoFactor) or any other.  With
\* "NeedCode" the handler prompts and blocks in Console.ReadLine.
AccountOnLoggedOn(a, t, result) ==
    CASE result = "OK" ->
            Step(StartFarming([a EXCEPT !.client = "loggedOn",
                                        !.farmingStartTimes = [g \in DOMAIN @ |-> a.now]]),
                 t)
      [] result = "NeedCode" -> Step([a EXCEPT !.client = "closing"], [t EXCEPT !.pc = "readLine"])
      [] OTHER -> Step([a EXCEPT !.client = "closing", !.isRunning = FALSE,
                                 !.loginFailed = TRUE], t)

\* OnLoggedOff (175-179)
OnLoggedOff(a, t) ==
    Step([a EXCEPT !.client = "closing", !.gamesPlayed = {}],
         [t EXCEPT !.pc = "save", !.after = "loop"])

(***************************************************************************)
(* The session manager (session-manager.js) and the choice login makes     *)
(* between the saved session and the credentials (steam-client.js 302-339). *)
(* The session file is a sequence of JSON tokens; fs.writeFileSync opens    *)
(* and truncates the file and then writes the text, and the process may be  *)
(* killed in between.                                                      *)
(***************************************************************************)
\* client._sessionKey.toString("hex"), empty for an empty key, and the account
\* names
SessionKeys == {"", "a1b2", "c3d4"}
AccountNames == {"alice", "bob"}

\* the shared secrets of a config: none, one of 5 characters, one of 6
SharedSecrets == {<<>>, <<"s", "e", "c", "r", "t">>, <<"s", "e", "c", "r", "e", "t">>}

Null == [kind |-> "null"]
SessionData(sessionKey, accountName) ==
    [kind |-> "object", sessionKey |-> sessionKey, accountName |-> accountName]

\* the objects saveSessionData (131-143) passes to saveSession
SessionDatas == {SessionData(k, a) : k \in SessionKeys, a \in AccountNames}

\* JSON.stringify writing the account name where the session key belongs
JsonStringifySwapped(d) ==
    <<"{", "sessionKey", ":", d.accountName, ",", "accountName", ":", d.sessionKey, "}">>

\* JSON.stringify(sessionData) (23), as tokens
JsonStringify(d) ==
    <<"{", "sessionKey", ":", d.sessionKey, ",", "accountName", ":", d.accountName, "}">>

\* JSON.parse(data) (40): the object, or a SyntaxError for a text that is not
\* one whole object
JsonParse(text) ==
    IF /\ Len(text) = 9
       /\ <<text[1], text[2], text[3]>> = <<"{", "sessionKey", ":">>
       /\ <<text[5], text[6], text[7]>> = <<",", "accountName", ":">>
       /\ text[9] = "}"
    THEN [threw |-> FALSE, value |-> SessionData(text[4], text[8])]
    ELSE [threw |-> TRUE, value |-> Null]

\* the session file: absent, or holding a text
NoFile == [exists |-> FALSE, text |-> <<>>]
File(text) == [exists |-> TRUE, text |-> text]

\* loadSession (35-45)
LoadSession(file) ==
    IF ~file.exists THEN Null
    ELSE LET parsed == JsonParse(file.text)
         IN  IF parsed.threw THEN Null ELSE parsed.value

\* clearSession (51-61)
ClearSession(file) == NoFile

\* SteamTotp.generateAuthCode(sharedSecret) (330)
GenerateAuthCode(sharedSecret) == [totp |-> sharedSecret]

\* login without the comparison of the account names (317)
LoginDetailsAnyAccount(accountName, sharedSecret, sessionData) ==
    IF sessionData # Null /\ sessionData.sessionKey # ""
    THEN [accountName |-> accountName, sessionKey |-> sessionData.sessionKey]
    ELSE IF Len(sharedSecret) > 5
         THEN [accountName |-> accountName, password |-> "password",
               twoFactorCode |-> GenerateAuthCode(sharedSecret)]
         ELSE [accountName |-> accountName, password |-> "password"]

\* the details login passes to client.logOn (309-338); Buffer.from(string, "hex")
\* does not throw, so the catch at 322 is never entered
LoginDetails(accountName, sharedSecret, sessionData) ==
    IF /\ sessionData # Null
       /\ sessionData.sessionKey # ""
       /\ sessionData.accountName = accountName
    THEN [accountName |-> accountName, sessionKey |-> sessionData.sessionKey]
    ELSE IF Len(sharedSecret) > 5
         THEN [accountName |-> accountName, password |-> "password",
               twoFactorCode |-> GenerateAuthCode(sharedSecret)]
         ELSE [accountName |-> accountName, password |-> "password"]

\* the details reconnect passes to client.logOn (224-252): the saved session
\* with the account name saved with it (231-234), else those of a login with
\* the last credentials (244-246), else none.  details is lastLoginDetails:
\* the arguments of the last login, or NoArgs for null.
ReconnectDetails(details, sessionData) ==
    IF sessionData # Null /\ sessionData.sessionKey # ""
    THEN [accountName |-> sessionData.accountName, sessionKey |-> sessionData.sessionKey]
    ELSE IF details.accountName # "none"
         THEN LoginDetails(details.accountName, details.sharedSecret, sessionData)
         ELSE [accountName |-> "none"]

\* the session manager when the program starts: no file, a file left by an
\* earlier run, or a file that is not a session
StartFiles ==
    {NoFile, File(<<"{">>)} \cup {File(JsonStringify(d)) : d \in SessionDatas}

NoLogin == [accountName |-> "none"]
NoArgs == [accountName |-> "none", sharedSecret |-> <<>>]

\* the results of the last call are forgotten when the next one is made
Called(c) == [c EXCEPT !.ret = "void", !.loaded = Null, !.args = NoArgs, !.sent = NoLogin]

NewCache(file) ==
    [file      |-> file,
     pending   |-> <<>>,
     saving    |-> Null,
     committed |-> LoadSession(file),
     saved     |-> FALSE,
     crashed   |-> FALSE,
     op        |-> "init",
     ret       |-> "void",
     loaded    |-> Null,
     args      |-> NoArgs,
     sent      |-> NoLogin,
     lastLoginDetails |-> NoArgs]

\* saveSession (18-29), up to the opening of the file by fs.writeFileSync
SaveSessionOpen(c, sessionData) ==
    IF sessionData = Null
    THEN [Called(c) EXCEPT !.op = "saveSession", !.ret = "false"]
    ELSE [Called(c) EXCEPT !.file = File(<<>>), !.pending = JsonStringify(sessionData),
                   !.saving = sessionData, !.op = "writeFileSync", !.ret = "void"]

\* fs.writeFileSync (23) writes the next token; with the last one saveSession
\* returns true
SaveSessionWrite(c) ==
    LET c1 == [c EXCEPT !.file.text = Append(@, Head(c.pending)),
                        !.pending = Tail(@)]
    IN  IF c1.pending # <<>> THEN c1
        ELSE [c1 EXCEPT !.op = "saveSession", !.ret = "true", !.committed = c.saving,
                        !.saving = Null, !.saved = TRUE, !.crashed = FALSE]

\* the process is killed inside fs.writeFileSync and started again
CrashInSave(c) ==
    [c EXCEPT !.pending = <<>>, !.saving = Null, !.crashed = TRUE, !.saved = FALSE,
              !.op = "crash", !.ret = "void", !.lastLoginDetails = NoArgs]

(***************************************************************************)
(* The event manager (event-manager.js): the registry of handlers, on with  *)
(* the removal function it returns, and trigger.                           *)
(***************************************************************************)
\* two of the events of the registry (12-20), and one it does not have
RegistryEvents == {"loggedOn", "error"}
EventNames == RegistryEvents \cup {"other"}

\* handler functions: two that return, one that throws, and one that, like the
\* error handler of farming-manager.js (151-165), calls the removal functions
\* of the handlers of the other events
HandlerFunctions == {"h", "g", "throws", "cleanup"}

\* the arguments of a trigger
TriggerArgs == {"x", "y"}

NewBus ==
    [eventHandlers |-> [e \in RegistryEvents |-> <<>>],
     subs          |-> <<>>,
     used          |-> {},
     op            |-> "init",
     args          |-> [event |-> "none", arg |-> "none", id |-> 0],
     log           |-> <<>>,
     propagated    |-> FALSE]

\* Array.prototype.indexOf: the first index of x in array, 0 for -1
IndexOf(array, x) ==
    IF \E i \in 1..Len(array) : array[i] = x
    THEN CHOOSE i \in 1..Len(array) :
             array[i] = x /\ \A j \in 1..(i - 1) : array[j] # x
    ELSE 0

\* Array.prototype.splice(index, 1)
Splice(array, index) ==
    [i \in 1..(Len(array) - 1) |-> IF i < index THEN array[i] ELSE array[i + 1]]

\* on (29-33): the handler is pushed; the removal function is subscription
\* number Len(subs) + 1
On(b, event, handler) ==
    [b EXCEPT !.eventHandlers =
                  IF event \in DOMAIN @
                  THEN [@ EXCEPT ![event] = Append(@, handler)] ELSE @,
              !.subs = Append(@, [event |-> event, handler |-> handler])]

\* the removal function on returned for subscription id (35-42): it removes the
\* first occurrence of the handler in the list of the event
Remove(b, id) ==
    LET event == b.subs[id].event
        index == IF event \in DOMAIN b.eventHandlers
                 THEN IndexOf(b.eventHandlers[event], b.subs[id].handler) ELSE 0
    IN  [b EXCEPT !.eventHandlers =
                      IF index # 0 THEN [@ EXCEPT ![event] = Splice(@, index)] ELSE @,
                  !.used = @ \cup {id}]

\* the removal functions of the subscriptions from..Len(subs) that are not
\* for this event, called in turn
RECURSIVE RemoveOthers(_, _, _)
RemoveOthers(b, event, from) ==
    IF from > Len(b.subs) THEN b
    ELSE RemoveOthers(IF b.subs[from].event # event THEN Remove(b, from) ELSE b,
                      event, from + 1)

\* a handler that calls its own removal function when it is invoked:
\* const remove = on(event, () => remove())
RemoveSelf(b, event) ==
    LET own == {id \in DOMAIN b.subs :
                   b.subs[id].event = event /\ b.subs[id].handler = "once"}
    IN  IF own = {} THEN b
        ELSE Remove(b, CHOOSE id \in own : \A other \in own : id <= other)

\* handler(...args) (73): what the call leaves, and whether it threw
Call(b, event, handler, arg) ==
    LET b1 == [b EXCEPT !.log = Append(@, [handler |-> handler, arg |-> arg])]
    IN  CASE handler = "throws" -> [b |-> b1, threw |-> TRUE]
          [] handler = "cleanup" -> [b |-> RemoveOthers(b1, event, 1), threw |-> FALSE]
          [] handler = "once" -> [b |-> RemoveSelf(b1, event), threw |-> FALSE]
          [] OTHER -> [b |-> b1, threw |-> FALSE]

\* the callback of forEach without try and catch: an exception leaves forEach
InvokeUncaught(b, event, handler, arg) ==
    LET r == Call(b, event, handler, arg)
    IN  [r.b EXCEPT !.propagated = r.threw]

\* the callback of forEach (71-77): the exception of a handler is caught
Invoke(b, event, handler, arg) ==
    Call(b, event, handler, arg).b

\* forEach from the last element to the first
RECURSIVE ForEachReversed(_, _, _, _, _)
ForEachReversed(b, event, arg, i, n) ==
    IF i > n THEN b
    ELSE ForEachReversed(
             IF n + 1 - i <= Len(b.eventHandlers[event])
             THEN Invoke(b, event, b.eventHandlers[event][n + 1 - i], arg) ELSE b,
             event, arg, i + 1, n)

\* forEach (71) from index i: the n elements the array had at the start are
\* visited, those that are still there when their turn comes
RECURSIVE ForEach(_, _, _, _, _)
ForEach(b, event, arg, i, n) ==
    IF i > n \/ b.propagated THEN b
    ELSE ForEach(IF i <= Len(b.eventHandlers[event])
                 THEN Invoke(b, event, b.eventHandlers[event][i], arg) ELSE b,
                 event, arg, i + 1, n)

\* trigger (69-79)
Trigger(b, event, arg) ==
    IF event \in DOMAIN b.eventHandlers
    THEN ForEach(b, event, arg, 1, Len(b.eventHandlers[event]))
    ELSE b

(***************************************************************************)
(* Initial state and commit.                                               *)
(***************************************************************************)
(* The fleet (Program.cs 70-89): Main starts one task per account of the   *)
(* config, a delay apart, and waits for them all; Ctrl+C cancels the one   *)
(* token they share.  Each account is a SteamAccount object of its own;    *)
(* the accounts share the token, the clock and the file system, where      *)
(* each keeps its state file under its user name.  The accounts of a       *)
(* config are different Steam accounts: Username(i) is i.                  *)
(*                                                                         *)
(* A thread of an account runs from one blocking call to the next in one   *)
(* step; the interleavings of the threads of one account are those of      *)
(* AccountSpec.                                                            *)
(***************************************************************************)
\* config.Accounts.Count
MaxAccounts == 2

Accounts == 1..MaxAccounts

\* config.Accounts[i].Username
Username(i) == i

\* one file for every account, whatever its name
StateFileShared(username) == [dir |-> "state", name |-> 0, ext |-> "json"]

\* SteamAccount (31): _stateFile = $"state/state_{_config.Username}.json"
StateFile(username) == [dir |-> "state", name |-> username, ext |-> "json"]

\* SaveState (323): tempFile = _stateFile + ".tmp"
TempFile(username) == [StateFile(username) EXCEPT !.ext = "json.tmp"]

\* the paths the accounts use
Paths == UNION {{StateFile(Username(i)), TempFile(Username(i))} : i \in Accounts}

\* the minutes the clock of the fleet runs
MaxFleetMinutes == 1

\* the targets and the ledger each account of the fleet starts with: the
\* target of either game is reached, the first tick will find it
FleetTargetHours == 1 :> 1 @@ 2 :> 1
FleetLedger == 1 :> 3600 @@ 2 :> 3600

\* the fields of a SteamAccount object; its files are in the file system, the
\* token and the clock belong to the process
Object(a) ==
    [a EXCEPT !.stateFile = Missing, !.tempFile = Missing, !.now = 0, !.cancelled = FALSE]

\* an account of the fleet: its object, the task that runs RunAsync ("none"
\* before Task.Run) and its CheckTargets tasks
NewFleetAccount ==
    [a |-> Object(NewAccount(FleetTargetHours, <<>>)), t |-> Thread("none"), ticks |-> <<>>]

\* the process at line 78: no task yet; main is where Main is, next the
\* account the loop (80-87) is at, crashed whether an exception left Main
NewFleet ==
    [main      |-> "run",
     next      |-> 1,
     cancelled |-> FALSE,
     crashed   |-> FALSE,
     now       |-> 0,
     files     |-> [p \in Paths |->
                      IF p \in {StateFile(Username(i)) : i \in Accounts}
                      THEN Ledger(FleetLedger) ELSE Missing],
     accounts  |-> [i \in Accounts |-> NewFleetAccount],
     last      |-> [op |-> "init", i |-> 0]]

\* account i as its threads see it: the object with its files, the token and
\* the clock
View(f, i) ==
    [f.accounts[i].a EXCEPT !.stateFile = f.files[StateFile(Username(i))],
                            !.tempFile = f.files[TempFile(Username(i))],
                            !.now = f.now,
                            !.cancelled = f.cancelled]

\* the fleet after a thread of account i changed the object and the files
Put(f, i, a, t, ticks, op) ==
    [f EXCEPT !.accounts[i] = [a |-> Object(a), t |-> t, ticks |-> ticks],
              !.files = [p \in Paths |->
                           IF p = TempFile(Username(i)) THEN a.tempFile
                           ELSE IF p = StateFile(Username(i)) THEN a.stateFile
                           ELSE @[p]],
              !.last = [op |-> op, i |-> i]]

\* RunAsync (71): the loop condition
RunAsyncLoop(a, t) ==
    IF a.isRunning /\ ~a.cancelled
    THEN Step(a, [t EXCEPT !.pc = "wait"])
    ELSE RunAsyncFinally(a, t)

\* the next step of the thread that runs RunAsync, no other thread of the
\* account in between
CallbackThreadStep(a, t) ==
    CASE t.pc = "loop" -> RunAsyncLoop(a, t)
      [] t.pc = "save" -> SaveStateCompute(a, t)
      [] t.pc = "saveWrite" -> SaveStateWrite(a, t)
      [] t.pc = "saveMove" -> SaveStateMove(a, t, FALSE, TRUE)
      [] t.pc = "reset" -> OnDisconnectedReset(a, t)
      [] t.pc = "disconnect" -> RunAsyncDisconnect(a, t)

\* the thread runs up to its next blocking call: RunWaitCallbacks (73),
\* Console.ReadLine (126, 133), Thread.Sleep (113), or the end of RunAsync
RECURSIVE RunCallbackThread(_)
RunCallbackThread(s) ==
    IF s.t.pc \in {"wait", "readLine", "sleep", "done"}
    THEN s
    ELSE CHOOSE r \in {RunCallbackThread(n) : n \in {CallbackThreadStep(s.a, s.t)}} : TRUE

\* the next step of a CheckTargets task, no other thread of the account in
\* between
TickThreadStep(a, t) ==
    CASE t.pc = "loop" -> CheckTargetsLoop(a, t)
      [] t.pc = "remove" -> CheckTargetsRemove(a, t)
      [] t.pc = "cleanupLoad" -> CleanupLoad(a, t)
      [] t.pc = "cleanupOpen" -> CleanupOpen(a, t, FALSE, TRUE)
      [] t.pc = "cleanupWrite" -> CleanupWrite(a, t)
      [] t.pc = "save" -> SaveStateCompute(a, t)
      [] t.pc = "saveWrite" -> SaveStateWrite(a, t)
      [] t.pc = "saveMove" -> SaveStateMove(a, t, FALSE, TRUE)

\* the task runs up to its next Task.Delay (240) or to its end
RECURSIVE RunTickThread(_)
RunTickThread(s) ==
    IF s.t.pc \in {"delay", "done"}
    THEN s
    ELSE CHOOSE r \in {RunTickThread(n) : n \in {TickThreadStep(s.a, s.t)}} : TRUE

(***************************************************************************)
Op(name, ret, t) == [op |-> name, ret |-> ret, timer |-> t]

FarmerInit ==
    /\ connectionState = InitConnectionState
    /\ timers = EmptyBag
    /\ isFarming = FALSE
    /\ currentGames = {}
    /\ lastLoginDetails = "null"
    /\ sessionFile \in {"none", "saved"}
    /\ client = [steamID |-> FALSE, logon |-> "none"]
    /\ farmingHandlers = "none"
    /\ farmingRL = FALSE
    /\ atMenu = TRUE
    /\ out = <<>>
    /\ last = Op("init", "void", NoTimer)
    /\ stopped = FALSE

\* the Node.js farmer starts; no account of the .NET farmer runs
Init ==
    /\ FarmerInit
    /\ account = NewAccount(<<>>, <<>>)
    /\ callbackThread = Thread("start")
    /\ tickTasks = <<>>
    /\ cache = NewCache(NoFile)
    /\ bus = NewBus
    /\ fleet = NewFleet

\* the bound of the model: no handler may leave more than max timers pending
Bounded(w, max) == BagCardinality(w.timers) <= max

Commit(world, op, t) ==
  \E w \in {world} :
    /\ connectionState' = w.cs
    /\ timers' = w.timers
    /\ isFarming' = w.isFarming
    /\ currentGames' = w.currentGames
    /\ lastLoginDetails' = w.lastLoginDetails
    /\ sessionFile' = w.sessionFile
    /\ client' = w.client
    /\ farmingHandlers' = w.farmingHandlers
    /\ farmingRL' = w.farmingRL
    /\ atMenu' = w.atMenu
    /\ out' = w.out
    /\ last' = Op(op, w.ret, t)
    /\ stopped' = w.stopped
    /\ UNCHANGED <<accountVars, cache, bus, fleet>>

(***************************************************************************)
(* The connection manager on its own, driven through its interface by any  *)
(* caller.                                                                 *)
(***************************************************************************)
Outcomes == {"true", "false", "throw"}

\* the setState calls the code makes (steam-client.js 103-107, 187-190)
StateUpdates ==
    {[connected |-> TRUE, reconnecting |-> FALSE, reconnectAttempts |-> 0]}
    \cup {[connected |-> FALSE, lastDisconnectReason |-> r] : r \in DisconnectReasons}

\* the reconnect functions of the callers of the connection manager alone: a
\* cycle is started with "client" (the functions behave alike, so one name is
\* enough); a call made while a cycle runs may pass another function
ClientFuncs == {"client", "other"}

SupStartReconnect ==
    \E fn \in (IF connectionState.reconnecting THEN ClientFuncs ELSE {"client"}) :
        LET w == StartReconnect(World, fn)
        IN  Bounded(w, MaxTimers) /\ Commit(w, "startReconnect", NoTimer)

SupStopReconnect ==
    Commit(StopReconnect(World), "stopReconnect", NoTimer)

SupReset ==
    Commit(Reset(World), "reset", NoTimer)

SupTimer ==
    \E t \in BagToSet(timers), o \in Outcomes :
        Commit(TimerCallback(World, t, o), "timer", t)

SupReconnectSuccess ==
    /\ connectionState.reconnecting
    /\ Commit(HandleReconnectSuccess(World), "handleReconnectSuccess", NoTimer)

SupSetState ==
    \E u \in StateUpdates :
        Commit(SetState(World, u), "setState", NoTimer)

SupNext ==
    \/ SupStartReconnect
    \/ SupStopReconnect
    \/ SupReset
    \/ SupTimer
    \/ SupReconnectSuccess
    \/ SupSetState

SupInit == Init /\ sessionFile = "none"

SupervisorSpec == SupInit /\ [][SupNext]_vars

(***************************************************************************)
(* The whole program: the user at the menu and at the farming command      *)
(* line, the client's events, and the timers.                              *)
(***************************************************************************)
\* "Start Farming" chosen at the main menu
UserStartFarming ==
    /\ atMenu
    /\ isFarming \/ ~Busy(World)
    /\ Commit(FarmingStart(World), "startFarming", NoTimer)

\* the stop command (farming-manager.js 208-213)
UserStop ==
    /\ farmingRL
    /\ Commit([StopFarming(World) EXCEPT !.farmingRL = FALSE, !.atMenu = TRUE],
              "stopFarming", NoTimer)

\* the reconnect command (farming-manager.js 390-396)
UserReconnect ==
    /\ farmingRL
    /\ LET r == Reconnect(World)
       IN  ~r.threw /\ Commit([r.w EXCEPT !.ret = r.ret], "reconnect", NoTimer)

\* the client's loggedOn event
ProviderLoggedOn ==
    /\ client.logon \in {"session", "password"}
    /\ \E hasKey \in BOOLEAN :
          Commit(HandleLoggedOn([World EXCEPT !.client = [steamID |-> TRUE, logon |-> "none"]],
                                hasKey),
                 "loggedOn", NoTimer)

\* the client's error event: a logon refused, or a fatal error while logged on
ProviderError ==
    /\ client.logon \in {"session", "password"} \/ (client.steamID /\ client.logon = "none")
    /\ Commit(HandleError([World EXCEPT !.client = Offline]), "error", NoTimer)

\* the client's disconnected event: the connection lost, or the logoff done
ProviderDisconnected ==
    /\ Busy(World)
    /\ \E reason \in DisconnectReasons :
          LET w == HandleDisconnected([World EXCEPT !.client = Offline], reason)
          IN  Bounded(w, MaxPending) /\ Commit(w, "disconnected", NoTimer)

\* the client's sessionExpired event
ProviderSessionExpired ==
    /\ client.steamID /\ client.logon = "none"
    /\ LET w == HandleSessionExpired(World)
       IN  Bounded(w, MaxPending) /\ Commit(w, "sessionExpired", NoTimer)

\* a pending timer fires
TimerFires ==
    \E t \in BagToSet(timers) :
        Commit(TimerCallback(World, t, "true"), "timer", t)

Next ==
    \/ UserStartFarming
    \/ UserStop
    \/ UserReconnect
    \/ ProviderLoggedOn
    \/ ProviderError
    \/ ProviderDisconnected
    \/ ProviderSessionExpired
    \/ TimerFires

Spec == Init /\ [][Next]_vars

\* The event loop runs every timer that is due, and the client answers every
\* request; the user is free to do nothing.
FairSpec ==
    /\ Spec
    /\ WF_vars(TimerFires)
    /\ WF_vars(ProviderLoggedOn \/ ProviderError \/ ProviderDisconnected)

(***************************************************************************)
(* One account of the .NET farmer running: the callback thread, the        *)
(* CheckTargets tasks, Steam, the user's Ctrl+C and the clock.              *)
(***************************************************************************)
\* a thread has the state file open
OpenHandles(ts) == \E i \in DOMAIN ts : ts[i].handle = "open"

\* the state file was replaced: the open FileStreams write to the old file
Orphan(ts) ==
    [i \in DOMAIN ts |->
        IF ts[i].handle = "open" THEN [ts[i] EXCEPT !.handle = "orphan"] ELSE ts[i]]

AccountCommit(a, c, ts) ==
    /\ account' = a
    /\ callbackThread' = c
    /\ tickTasks' = ts
    /\ UNCHANGED <<farmerVars, cache, bus, fleet>>

\* the steps of SaveState, by the thread t that runs it
SaveStateStep(t, replace) ==
    CASE t.pc = "save" -> SaveStateCompute(account, t)
      [] t.pc = "saveWrite" -> SaveStateWrite(account, t)
      [] t.pc = "saveMove" ->
            SaveStateMove(account, t, OpenHandles(tickTasks), replace)

InSaveState(t) == t.pc \in {"save", "saveWrite", "saveMove"}

\* File.Move replaced a file that was open
Replaced(t, replace) ==
    /\ t.pc = "saveMove"
    /\ account.tempFile.kind # "missing"
    /\ OpenHandles(tickTasks)
    /\ replace

\* what the system may answer to an operation on a file that is open
Answers == IF OpenHandles(tickTasks) THEN BOOLEAN ELSE {TRUE}

\* Program.cs (83): Task.Run(account.RunAsync(cts.Token))
Run ==
    /\ callbackThread.pc = "start"
    /\ \E s \in {RunAsync(account, callbackThread)} :
           AccountCommit(s.a, s.t, tickTasks)

\* RunAsync (71): the loop condition
LoopCheck ==
    /\ callbackThread.pc = "loop"
    /\ \E s \in {RunAsyncLoop(account, callbackThread)} :
           AccountCommit(s.a, s.t, tickTasks)

\* RunAsync (73-74): RunWaitCallbacks found no callback
NoCallback ==
    /\ callbackThread.pc = "wait"
    /\ AccountCommit(account, [callbackThread EXCEPT !.pc = "loop"], tickTasks)

\* RunAsync (73): RunWaitCallbacks runs OnConnected
Connected ==
    /\ callbackThread.pc = "wait"
    /\ account.client = "connecting"
    /\ \E s \in {OnConnected(account, [callbackThread EXCEPT !.pc = "loop"])} :
           AccountCommit(s.a, s.t, tickTasks)

\* RunAsync (73): RunWaitCallbacks runs OnDisconnected: the connection could
\* not be made, was lost, or was closed by Steam
Disconnected ==
    /\ callbackThread.pc = "wait"
    /\ account.client \in {"connecting", "loggingOn", "loggedOn", "closing"}
    /\ \E s \in {OnDisconnected(account, callbackThread)} :
           AccountCommit(s.a, s.t, tickTasks)

\* RunAsync (73): RunWaitCallbacks runs OnLoggedOn; with EResult.OK
\* StartFarming starts one more CheckTargets task (204-206).  The account
\* logs on at most logins times.
LoggedOnUpTo(logins) ==
    /\ callbackThread.pc = "wait"
    /\ account.client = "loggingOn"
    /\ \E result \in {"OK", "NeedCode", "InvalidPassword"} :
         \E s \in {AccountOnLoggedOn(account, [callbackThread EXCEPT !.pc = "loop"], result)} :
           IF result = "OK"
           THEN /\ Len(tickTasks) < logins
                /\ AccountCommit(s.a, s.t, Append(tickTasks, Thread("loop")))
           ELSE AccountCommit(s.a, s.t, tickTasks)

LoggedOn == LoggedOnUpTo(MaxLogins)

\* the user types the code and Console.ReadLine (126, 133) returns
ReadLine ==
    /\ callbackThread.pc = "readLine"
    /\ \E s \in {ReadLineReturns(account, callbackThread)} :
           AccountCommit(s.a, s.t, tickTasks)

\* RunAsync (73): RunWaitCallbacks runs OnLoggedOff
LoggedOff ==
    /\ callbackThread.pc = "wait"
    /\ account.client = "loggedOn"
    /\ \E s \in {OnLoggedOff(account, callbackThread)} :
           AccountCommit(s.a, s.t, tickTasks)

\* the callback thread inside SaveState
CallbackSaveState ==
    /\ InSaveState(callbackThread)
    /\ \E replace \in Answers :
         \E s \in {SaveStateStep(callbackThread, replace)} :
           AccountCommit(s.a, s.t,
               IF Replaced(callbackThread, replace) THEN Orphan(tickTasks) ELSE tickTasks)

\* the callback thread in the rest of OnDisconnected and of RunAsync
CallbackStep ==
    /\ callbackThread.pc \in {"reset", "sleep", "disconnect"}
    /\ \E s \in {CASE callbackThread.pc = "reset" ->
                         OnDisconnectedReset(account, callbackThread)
                   [] callbackThread.pc = "sleep" ->
                         OnDisconnectedConnect(account, callbackThread)
                   [] callbackThread.pc = "disconnect" ->
                         RunAsyncDisconnect(account, callbackThread)} :
           AccountCommit(s.a, s.t, tickTasks)

\* Program.cs (70-76): Ctrl+C cancels the token
Cancel ==
    /\ callbackThread.pc \notin {"start", "done"}
    /\ ~account.cancelled
    /\ AccountCommit([account EXCEPT !.cancelled = TRUE], callbackThread, tickTasks)

\* Program.cs (89): Main returns when every RunAsync has; after Ctrl+C they all
\* do and the process ends, its tasks with it.  An account that stopped for
\* another reason leaves the process to the other accounts.
ProcessRuns == ~(account.cancelled /\ callbackThread.pc = "done")

\* CheckTargets task i at the head of its loop, or with its delay over
TickCheck(i) ==
    /\ ProcessRuns
    /\ \/ tickTasks[i].pc = "loop"
       \/ tickTasks[i].pc = "delay" /\ account.now >= tickTasks[i].wake
    /\ \E s \in {IF tickTasks[i].pc = "loop"
                 THEN CheckTargetsLoop(account, tickTasks[i])
                 ELSE CheckTargetsCheck(account, tickTasks[i])} :
           AccountCommit(s.a, callbackThread, [tickTasks EXCEPT ![i] = s.t])

\* CheckTargets task i drops the completed games
TickRemove(i) ==
    /\ ProcessRuns
    /\ tickTasks[i].pc = "remove"
    /\ \E s \in {CheckTargetsRemove(account, tickTasks[i])} :
           AccountCommit(s.a, callbackThread, [tickTasks EXCEPT ![i] = s.t])

\* CheckTargets task i inside CleanupCompletedGames
TickCleanup(i) ==
    /\ ProcessRuns
    /\ tickTasks[i].pc \in {"cleanupLoad", "cleanupOpen", "cleanupWrite"}
    /\ \E shared \in Answers :
         \E s \in {CASE tickTasks[i].pc = "cleanupLoad" ->
                           CleanupLoad(account, tickTasks[i])
                     [] tickTasks[i].pc = "cleanupOpen" ->
                           CleanupOpen(account, tickTasks[i], OpenHandles(tickTasks), shared)
                     [] tickTasks[i].pc = "cleanupWrite" ->
                           CleanupWrite(account, tickTasks[i])} :
           AccountCommit(s.a, callbackThread, [tickTasks EXCEPT ![i] = s.t])

\* CheckTargets task i inside SaveState
TickSaveState(i) ==
    /\ ProcessRuns
    /\ InSaveState(tickTasks[i])
    /\ \E replace \in Answers :
         \E s \in {SaveStateStep(tickTasks[i], replace)} :
           AccountCommit(s.a, callbackThread,
               [IF Replaced(tickTasks[i], replace) THEN Orphan(tickTasks) ELSE tickTasks
                   EXCEPT ![i] = s.t])

\* a minute passes while every thread waits: the callback thread in
\* RunWaitCallbacks, Task.Delay (73-74) or Console.ReadLine, the tasks in
\* Task.Delay (240); the handlers themselves take no time.  Steam credits the
\* minute to the games the account is playing.
TimePasses ==
    /\ ProcessRuns
    /\ account.now < MaxMinutes * TickDelay
    /\ callbackThread.pc \in {"loop", "wait", "readLine", "done"}
    /\ \A i \in DOMAIN tickTasks : tickTasks[i].pc \in {"delay", "done"}
    /\ AccountCommit(
         [account EXCEPT !.now = @ + TickDelay,
                         !.farmed = [g \in AppIds |->
                                       IF g \in account.gamesPlayed
                                       THEN @[g] + TickDelay ELSE @[g]]],
         callbackThread, tickTasks)

AccountNext ==
    \/ Run
    \/ LoopCheck
    \/ NoCallback
    \/ Connected
    \/ Disconnected
    \/ LoggedOn
    \/ ReadLine
    \/ LoggedOff
    \/ CallbackSaveState
    \/ CallbackStep
    \/ Cancel
    \/ \E i \in DOMAIN tickTasks : TickCheck(i)
    \/ \E i \in DOMAIN tickTasks : TickRemove(i)
    \/ \E i \in DOMAIN tickTasks : TickCleanup(i)
    \/ \E i \in DOMAIN tickTasks : TickSaveState(i)
    \/ TimePasses

AccountInit ==
    /\ FarmerInit
    /\ sessionFile = "none"
    /\ \E targetHours \in TargetConfigs, ledger \in StartLedgers :
           account = NewAccount(targetHours, ledger)
    /\ callbackThread = Thread("start")
    /\ tickTasks = <<>>
    /\ cache = NewCache(NoFile)
    /\ bus = NewBus
    /\ fleet = NewFleet

AccountSpec == AccountInit /\ [][AccountNext]_vars

\* One account that loses its connection and logs on again.  Its config gives
\* no target, so CheckTargets never has a game to remove.
MaxRelogins == 2

LoggedOnAgain == LoggedOnUpTo(MaxRelogins)

ReloginNext ==
    \/ Run
    \/ LoopCheck
    \/ NoCallback
    \/ Connected
    \/ Disconnected
    \/ LoggedOnAgain
    \/ ReadLine
    \/ LoggedOff
    \/ CallbackSaveState
    \/ CallbackStep
    \/ Cancel
    \/ \E i \in DOMAIN tickTasks : TickCheck(i)
    \/ \E i \in DOMAIN tickTasks : TickSaveState(i)
    \/ TimePasses

ReloginInit ==
    /\ FarmerInit
    /\ sessionFile = "none"
    /\ account = NewAccount(<<>>, <<>>)
    /\ callbackThread = Thread("start")
    /\ tickTasks = <<>>
    /\ cache = NewCache(NoFile)
    /\ bus = NewBus
    /\ fleet = NewFleet

ReloginSpec == ReloginInit /\ [][ReloginNext]_vars

(***************************************************************************)
(* The account with the loop of SaveState (301-306) in two steps: the copy *)
(* of _farmingStartTimes that ToList() makes, and the passes over the copy *)
(* that write _farmingStartTimes[appId].  The dictionary is shared with    *)
(* the other threads without a lock, and a step of another thread may come *)
(* in between.  Game 1 has a target of one hour and a minute left to farm, *)
(* game 2 has no target.                                                   *)
(***************************************************************************)
\* SaveState (297-301): LoadState, then _farmingStartTimes.ToList(); the thread
\* keeps the state loaded and the copy
SaveStateToList(a, t) ==
    Step(a, [t EXCEPT !.loaded = LoadState(a.stateFile),
                      !.state = a.farmingStartTimes,
                      !.pc = "saveReset"])

\* SaveState (301-320) over the copy: the indexer sets the start time of each
\* game of the copy, and adds the key when it is no longer there
SaveStateOverCopy(a, t) ==
    LET existingState == t.loaded
        started == DOMAIN t.state
        a1 == [a EXCEPT !.farmingStartTimes =
                  [g \in DOMAIN @ \cup started |-> IF g \in started THEN a.now ELSE @[g]]]
        kept == {g \in DOMAIN existingState :
                    g \notin DOMAIN a1.farmingStartTimes /\ g \in a.games}
        state == [g \in started \cup kept |->
                    IF g \in started
                    THEN GetValueOrDefault(existingState, g) + (a.now - t.state[g])
                    ELSE existingState[g]]
    IN  Step(a1, [t EXCEPT !.state = state, !.pc = "saveWrite"])

SaveStateSteps(t, replace) ==
    CASE t.pc = "save" -> SaveStateToList(account, t)
      [] t.pc = "saveReset" -> SaveStateOverCopy(account, t)
      [] t.pc = "saveWrite" -> SaveStateWrite(account, t)
      [] t.pc = "saveMove" ->
            SaveStateMove(account, t, OpenHandles(tickTasks), replace)

InSaveStateSteps(t) == t.pc \in {"save", "saveReset", "saveWrite", "saveMove"}

\* the callback thread inside SaveState
CallbackSaveStateSteps ==
    /\ InSaveStateSteps(callbackThread)
    /\ \E replace \in Answers :
         \E s \in {SaveStateSteps(callbackThread, replace)} :
           AccountCommit(s.a, s.t,
               IF Replaced(callbackThread, replace) THEN Orphan(tickTasks) ELSE tickTasks)

\* CheckTargets task i inside SaveState
TickSaveStateSteps(i) ==
    /\ ProcessRuns
    /\ InSaveStateSteps(tickTasks[i])
    /\ \E replace \in Answers :
         \E s \in {SaveStateSteps(tickTasks[i], replace)} :
           AccountCommit(s.a, callbackThread,
               [IF Replaced(tickTasks[i], replace) THEN Orphan(tickTasks) ELSE tickTasks
                   EXCEPT ![i] = s.t])

ThreadsNext ==
    \/ Run
    \/ LoopCheck
    \/ NoCallback
    \/ Connected
    \/ Disconnected
    \/ LoggedOn
    \/ ReadLine
    \/ LoggedOff
    \/ CallbackSaveStateSteps
    \/ CallbackStep
    \/ Cancel
    \/ \E i \in DOMAIN tickTasks : TickCheck(i)
    \/ \E i \in DOMAIN tickTasks : TickRemove(i)
    \/ \E i \in DOMAIN tickTasks : TickCleanup(i)
    \/ \E i \in DOMAIN tickTasks : TickSaveStateSteps(i)
    \/ TimePasses

ThreadsInit ==
    /\ FarmerInit
    /\ sessionFile = "none"
    /\ account = NewAccount(1 :> 1, 1 :> 3540)
    /\ callbackThread = Thread("start")
    /\ tickTasks = <<>>
    /\ cache = NewCache(NoFile)
    /\ bus = NewBus
    /\ fleet = NewFleet

ThreadsSpec == ThreadsInit /\ [][ThreadsNext]_vars

\* Every thread that can take a step takes one, RunWaitCallbacks returns, and
\* time passes; Steam is free to do nothing and the user to type no code.
UnattendedAccountSpec ==
    /\ AccountSpec
    /\ WF_vars(Run \/ LoopCheck \/ CallbackSaveState \/ CallbackStep)
    /\ WF_vars(NoCallback \/ Connected \/ Disconnected \/ LoggedOn \/ LoggedOff)
    /\ WF_vars(\E i \in DOMAIN tickTasks :
                   TickCheck(i) \/ TickRemove(i) \/ TickCleanup(i) \/ TickSaveState(i))
    /\ WF_vars(TimePasses)

\* Every thread that can take a step takes one, RunWaitCallbacks returns, time
\* passes and a user at the console answers every prompt; Steam and the
\* user's Ctrl+C are free not to happen.
FairAccountSpec ==
    /\ AccountSpec
    /\ WF_vars(Run \/ LoopCheck \/ CallbackSaveState \/ CallbackStep \/ ReadLine)
    /\ WF_vars(NoCallback \/ Connected \/ Disconnected \/ LoggedOn \/ LoggedOff)
    /\ WF_vars(\E i \in DOMAIN tickTasks :
                   TickCheck(i) \/ TickRemove(i) \/ TickCleanup(i) \/ TickSaveState(i))
    /\ WF_vars(TimePasses)

\* The repository holds two programs; one of them is run.
ProgramInit == Init \/ AccountInit

ProgramNext ==
    \/ callbackThread.pc = "start" /\ Next
    \/ last.op = "init" /\ AccountNext

ProgramSpec == ProgramInit /\ [][ProgramNext]_vars

(***************************************************************************)
(* The session manager at work: the calls steam-client.js makes, and a      *)
(* crash of the process inside a save.                                     *)
(***************************************************************************)
CacheCommit(c) ==
    /\ cache' = c
    /\ UNCHANGED <<farmerVars, accountVars, bus, fleet>>

\* saveSession(sessionData) is called
CallSaveSession ==
    /\ cache.pending = <<>>
    /\ \E sessionData \in SessionDatas \cup {Null} :
           CacheCommit(SaveSessionOpen(cache, sessionData))

\* fs.writeFileSync goes on
WriteFileSync ==
    /\ cache.pending # <<>>
    /\ CacheCommit(SaveSessionWrite(cache))

Crash ==
    /\ cache.pending # <<>>
    /\ CacheCommit(CrashInSave(cache))

\* loadSession() is called
CallLoadSession ==
    /\ cache.pending = <<>>
    /\ CacheCommit([Called(cache) EXCEPT !.op = "loadSession",
                                 !.loaded = LoadSession(cache.file)])

\* clearSession() is called
CallClearSession ==
    /\ cache.pending = <<>>
    /\ CacheCommit([Called(cache) EXCEPT !.file = ClearSession(@), !.committed = Null,
                                 !.crashed = FALSE, !.saved = FALSE,
                                 !.op = "clearSession", !.ret = "true"])

\* login(accountName, password, sharedSecret) is called
CallLogin ==
    /\ cache.pending = <<>>
    /\ \E accountName \in AccountNames, sharedSecret \in SharedSecrets :
           CacheCommit([Called(cache) EXCEPT
               !.op = "login",
               !.args = [accountName |-> accountName, sharedSecret |-> sharedSecret],
               !.lastLoginDetails =
                   [accountName |-> accountName, sharedSecret |-> sharedSecret],
               !.sent = LoginDetails(accountName, sharedSecret, LoadSession(cache.file))])

\* reconnect() is called: by the timer of the connection manager (198) or by
\* the reconnect command (382)
CallReconnect ==
    /\ cache.pending = <<>>
    /\ \E sent \in {ReconnectDetails(cache.lastLoginDetails, LoadSession(cache.file))} :
           CacheCommit([Called(cache) EXCEPT
               !.op = "reconnect",
               !.ret = IF sent = NoLogin THEN "false" ELSE "true",
               !.sent = sent])

CacheNext ==
    \/ CallSaveSession
    \/ WriteFileSync
    \/ Crash
    \/ CallLoadSession
    \/ CallClearSession
    \/ CallLogin
    \/ CallReconnect

CacheInit ==
    /\ FarmerInit
    /\ sessionFile = "none"
    /\ account = NewAccount(<<>>, <<>>)
    /\ callbackThread = Thread("start")
    /\ tickTasks = <<>>
    /\ \E file \in StartFiles : cache = NewCache(file)
    /\ bus = NewBus
    /\ fleet = NewFleet

CacheSpec == CacheInit /\ [][CacheNext]_vars

(***************************************************************************)
(* The event manager at work: subscriptions, removals and triggers in any   *)
(* order.                                                                  *)
(***************************************************************************)
BusCommit(b, op, args) ==
    /\ bus' = [b EXCEPT !.op = op, !.args = args]
    /\ UNCHANGED <<farmerVars, accountVars, cache, fleet>>

\* on(event, handler) is called
CallOn ==
    /\ Len(bus.subs) < MaxSubscriptions
    /\ \E event \in EventNames, handler \in HandlerFunctions :
           BusCommit(On([bus EXCEPT !.log = <<>>, !.propagated = FALSE], event, handler), "on",
                     [event |-> event, arg |-> handler, id |-> Len(bus.subs) + 1])

\* a removal function is called
CallRemove ==
    \E id \in DOMAIN bus.subs :
        BusCommit(Remove([bus EXCEPT !.log = <<>>, !.propagated = FALSE], id), "remove",
                  [event |-> bus.subs[id].event, arg |-> bus.subs[id].handler, id |-> id])

\* trigger(event, arg) is called
CallTrigger ==
    \E event \in EventNames, arg \in TriggerArgs :
        BusCommit(Trigger([bus EXCEPT !.log = <<>>, !.propagated = FALSE], event, arg), "trigger",
                  [event |-> event, arg |-> arg, id |-> 0])

BusNext ==
    \/ CallOn
    \/ CallRemove
    \/ CallTrigger

BusInit ==
    /\ FarmerInit
    /\ sessionFile = "none"
    /\ account = NewAccount(<<>>, <<>>)
    /\ callbackThread = Thread("start")
    /\ tickTasks = <<>>
    /\ cache = NewCache(NoFile)
    /\ bus = NewBus
    /\ fleet = NewFleet

BusSpec == BusInit /\ [][BusNext]_vars

\* on(event, handler) is called with a handler that removes itself
CallOnOnce ==
    /\ Len(bus.subs) < MaxSubscriptions
    /\ \E event \in EventNames :
           BusCommit(On([bus EXCEPT !.log = <<>>, !.propagated = FALSE], event, "once"), "on",
                     [event |-> event, arg |-> "once", id |-> Len(bus.subs) + 1])

\* The event manager with handlers that unsubscribe during a dispatch of their
\* own event.
BusRemovalNext ==
    \/ CallOn
    \/ CallOnOnce
    \/ CallRemove
    \/ CallTrigger

BusRemovalSpec == BusInit /\ [][BusRemovalNext]_vars

(***************************************************************************)
(* The fleet at work: Main, the tasks of the accounts, Steam, the user's   *)
(* Ctrl+C and the clock.  When Main is over the process is, and its tasks  *)
(* with it.                                                                *)
(***************************************************************************)
FleetCommit(f) ==
    /\ fleet' = f
    /\ UNCHANGED <<farmerVars, accountVars, cache, bus>>

\* a step of Main, or of the user: of no account
MainStep(f, op) == [f EXCEPT !.last = [op |-> op, i |-> 0]]

\* the process has not ended
FleetRuns == fleet.main # "exited"

\* Program.cs (82-85): Task.Run(RunAsync, cts.Token) for the next account; a
\* task created with a cancelled token never runs
TaskRun ==
    /\ fleet.main = "run"
    /\ FleetCommit(MainStep(
         [fleet EXCEPT !.accounts[fleet.next].t.pc =
                           IF fleet.cancelled THEN "canceled" ELSE "start",
                       !.next = @ + 1,
                       !.main = IF fleet.next < MaxAccounts THEN "delay" ELSE "whenAll"],
         "TaskRun"))

\* Program.cs (86): Task.Delay(LoginDelaySeconds * 1000, cts.Token) is over
DelayOver ==
    /\ fleet.main = "delay"
    /\ ~fleet.cancelled
    /\ FleetCommit(MainStep([fleet EXCEPT !.main = "run"], "DelayOver"))

\* Program.cs (86): the token is cancelled; await Task.Delay throws
\* TaskCanceledException, nothing in Main catches it, the process ends
DelayCanceled ==
    /\ fleet.main = "delay"
    /\ fleet.cancelled
    /\ FleetCommit(MainStep([fleet EXCEPT !.main = "exited", !.crashed = TRUE],
                            "DelayCanceled"))

\* Program.cs (89): Task.WhenAll(tasks) completes when every task has; Main
\* returns
WhenAll ==
    /\ fleet.main = "whenAll"
    /\ \A i \in Accounts : fleet.accounts[i].t.pc \in {"done", "canceled"}
    /\ FleetCommit(MainStep([fleet EXCEPT !.main = "exited"], "WhenAll"))

\* Program.cs (71-76): Ctrl+C cancels the token; a task that has not begun to
\* run is cancelled with it
CtrlC ==
    /\ FleetRuns
    /\ ~fleet.cancelled
    /\ FleetCommit(MainStep(
         [fleet EXCEPT !.cancelled = TRUE,
                       !.accounts = [i \in Accounts |->
                                       IF @[i].t.pc = "start"
                                       THEN [@[i] EXCEPT !.t.pc = "canceled"]
                                       ELSE @[i]]],
         "CtrlC"))

\* the thread that runs RunAsync for account i goes on from s to its next
\* blocking call
CallbackRuns(i, s, op) ==
    \E n \in {s} :
      \E r \in {RunCallbackThread(n)} :
        FleetCommit(Put(fleet, i, r.a, r.t, fleet.accounts[i].ticks, op))

\* the task of account i begins: RunAsync (62-71)
FleetRun(i) ==
    /\ FleetRuns
    /\ fleet.accounts[i].t.pc = "start"
    /\ CallbackRuns(i, RunAsync(View(fleet, i), fleet.accounts[i].t), "Run")

\* RunAsync (73-74) of account i: RunWaitCallbacks found no callback
FleetNoCallback(i) ==
    /\ FleetRuns
    /\ fleet.accounts[i].t.pc = "wait"
    /\ CallbackRuns(i, Step(View(fleet, i), [fleet.accounts[i].t EXCEPT !.pc = "loop"]),
                    "NoCallback")

\* RunAsync (73) of account i: RunWaitCallbacks runs OnConnected
FleetConnected(i) ==
    /\ FleetRuns
    /\ fleet.accounts[i].t.pc = "wait"
    /\ fleet.accounts[i].a.client = "connecting"
    /\ CallbackRuns(i, OnConnected(View(fleet, i), [fleet.accounts[i].t EXCEPT !.pc = "loop"]),
                    "Connected")

\* RunAsync (73) of account i: RunWaitCallbacks runs OnDisconnected, up to
\* Thread.Sleep (113)
FleetDisconnected(i) ==
    /\ FleetRuns
    /\ fleet.accounts[i].t.pc = "wait"
    /\ fleet.accounts[i].a.client \in {"connecting", "loggingOn", "loggedOn", "closing"}
    /\ CallbackRuns(i, OnDisconnected(View(fleet, i), fleet.accounts[i].t), "Disconnected")

\* OnDisconnected (113-116) of account i: Thread.Sleep is over
FleetSleepOver(i) ==
    /\ FleetRuns
    /\ fleet.accounts[i].t.pc = "sleep"
    /\ CallbackRuns(i, OnDisconnectedConnect(View(fleet, i), fleet.accounts[i].t), "SleepOver")

\* RunAsync (73) of account i: RunWaitCallbacks runs OnLoggedOn; with
\* EResult.OK StartFarming starts one more CheckTargets task (204-206), which
\* runs up to its Task.Delay
FleetLoggedOn(i) ==
    /\ FleetRuns
    /\ fleet.accounts[i].t.pc = "wait"
    /\ fleet.accounts[i].a.client = "loggingOn"
    /\ \E result \in {"OK", "NeedCode", "InvalidPassword"} :
         \E s \in {AccountOnLoggedOn(View(fleet, i),
                                     [fleet.accounts[i].t EXCEPT !.pc = "loop"], result)} :
           \E r \in {RunCallbackThread(s)} :
             IF result = "OK"
             THEN /\ Len(fleet.accounts[i].ticks) < MaxLogins
                  /\ \E n \in {Step(r.a, Thread("loop"))} : \E k \in {RunTickThread(n)} :
                       FleetCommit(Put(fleet, i, k.a, r.t,
                                       Append(fleet.accounts[i].ticks, k.t), "LoggedOn"))
             ELSE FleetCommit(Put(fleet, i, r.a, r.t, fleet.accounts[i].ticks,
                                  IF result = "NeedCode" THEN "NeedCode" ELSE "LoginFailed"))

\* the user types the code account i asked for: Console.ReadLine returns
FleetReadLine(i) ==
    /\ FleetRuns
    /\ fleet.accounts[i].t.pc = "readLine"
    /\ CallbackRuns(i, ReadLineReturns(View(fleet, i), fleet.accounts[i].t), "ReadLine")

\* RunAsync (73) of account i: RunWaitCallbacks runs OnLoggedOff
FleetLoggedOff(i) ==
    /\ FleetRuns
    /\ fleet.accounts[i].t.pc = "wait"
    /\ fleet.accounts[i].a.client = "loggedOn"
    /\ CallbackRuns(i, OnLoggedOff(View(fleet, i), fleet.accounts[i].t), "LoggedOff")

\* CheckTargets task k of account i: its delay is over (240); it runs the
\* tick up to its next delay or to its end
FleetTick(i, k) ==
    /\ FleetRuns
    /\ fleet.accounts[i].ticks[k].pc = "delay"
    /\ fleet.now >= fleet.accounts[i].ticks[k].wake
    /\ \E s \in {CheckTargetsCheck(View(fleet, i), fleet.accounts[i].ticks[k])} :
       \E r \in {RunTickThread(s)} :
         FleetCommit(Put(fleet, i, r.a, fleet.accounts[i].t,
                         [fleet.accounts[i].ticks EXCEPT ![k] = r.t], "Tick"))

\* a minute passes
FleetTimePasses ==
    /\ FleetRuns
    /\ fleet.now < MaxFleetMinutes * TickDelay
    /\ FleetCommit(MainStep([fleet EXCEPT !.now = @ + TickDelay], "TimePasses"))

FleetNext ==
    \/ TaskRun
    \/ DelayOver
    \/ DelayCanceled
    \/ WhenAll
    \/ CtrlC
    \/ \E i \in Accounts : FleetRun(i)
    \/ \E i \in Accounts : FleetNoCallback(i)
    \/ \E i \in Accounts : FleetConnected(i)
    \/ \E i \in Accounts : FleetDisconnected(i)
    \/ \E i \in Accounts : FleetSleepOver(i)
    \/ \E i \in Accounts : FleetLoggedOn(i)
    \/ \E i \in Accounts : FleetReadLine(i)
    \/ \E i \in Accounts : FleetLoggedOff(i)
    \/ \E i \in Accounts : \E k \in DOMAIN fleet.accounts[i].ticks : FleetTick(i, k)
    \/ FleetTimePasses

FleetInit ==
    /\ FarmerInit
    /\ sessionFile = "none"
    /\ account = NewAccount(<<>>, <<>>)
    /\ callbackThread = Thread("start")
    /\ tickTasks = <<>>
    /\ cache = NewCache(NoFile)
    /\ bus = NewBus
    /\ fleet = NewFleet

FleetSpec == FleetInit /\ [][FleetNext]_vars

\* Main goes on, every thread of every account that can take a step takes
\* one, RunWaitCallbacks returns, and time passes; Steam is free to do nothing
\* and the user to type no code and not to press Ctrl+C.
FairFleetSpec ==
    /\ FleetSpec
    /\ WF_vars(TaskRun \/ DelayOver \/ DelayCanceled \/ WhenAll)
    /\ \A i \in Accounts :
          /\ WF_vars(FleetRun(i) \/ FleetSleepOver(i) \/ FleetNoCallback(i)
                         \/ FleetConnected(i) \/ FleetDisconnected(i)
                         \/ FleetLoggedOn(i) \/ FleetLoggedOff(i))
          /\ WF_vars(\E k \in DOMAIN fleet.accounts[i].ticks : FleetTick(i, k))
    /\ WF_vars(FleetTimePasses)

(***************************************************************************)
(* Properties.                                                             *)
(***************************************************************************)
RatEq(x, y) == x.num * y.den = y.num * x.den

\* min(base * multiplier^a, maxDelay), stated with the exponent operator
ExpectedDelay(a) ==
    IF InitialDelay * BackoffNum ^ a <= MaxDelay * BackoffDen ^ a
    THEN [num |-> InitialDelay * BackoffNum ^ a, den |-> BackoffDen ^ a]
    ELSE [num |-> MaxDelay, den |-> 1]

Published(ev) == Count(out, ev)

\* how many pending timers carry the callback, ordinal and delay of t
PendingLike(t, b) ==
    CopiesIn([t EXCEPT !.stopped = FALSE], b) + CopiesIn([t EXCEPT !.stopped = TRUE], b)

\* C1: a retry that was scheduled when stopReconnect() was called never runs its
\* reconnect function afterwards.
C1_StoppedRetryNeverRuns ==
    last.op = "timer" => ~last.timer.stopped

\* C2: once stopFarming() has returned, and until login() is called again, no
\* reconnect closure runs (so no logOn is issued by one) and isFarming() stays
\* false.
C2_StoppedStaysStopped ==
    stopped => (~isFarming /\ last.op # "timer")

\* C3: when the client's loggedOn event arrives while the supervisor is
\* reconnecting, the supervisor goes back to idle (reconnecting = false), the
\* attempt counter is reset to 0 and exactly one "reconnected" notification is
\* published.
C3_LoggedOnEndsReconnecting ==
    [][(last'.op = "loggedOn" /\ connectionState.reconnecting)
          => /\ ~connectionState'.reconnecting
             /\ connectionState'.reconnectAttempts = 0
             /\ Count(out', "reconnected") = 1]_vars

\* C4: in a reconnection cycle, the failure that brings the attempt counter to
\* maxReconnectAttempts puts the supervisor in Failed (reconnecting = false),
\* publishes exactly one reconnectFailed and leaves no attempt scheduled; no
\* reconnectFailed is published before that failure, nor again after it.
C4_FailsOnceAfterMaxAttempts ==
    [][/\ (/\ last'.op = "timer" /\ last'.ret = "throw"
           /\ connectionState.reconnecting
           /\ connectionState'.reconnectAttempts = connectionState.maxReconnectAttempts)
          => /\ Count(out', "reconnectFailed") = 1
             /\ ~connectionState'.reconnecting
             /\ timers' = EmptyBag
       /\ Count(out', "reconnectFailed") > 0
          => /\ connectionState.reconnecting
             /\ connectionState'.reconnectAttempts = connectionState.maxReconnectAttempts]_vars

\* C5: whenever the orchestrator is farming, the supervisor is reconnecting and the client answers the login of
\* an attempt with error or disconnected, the supervisor eventually has a further
\* attempt scheduled or has left Reconnecting (reconnectFailed, or success); it
\* does not stay Reconnecting for ever with no attempt pending.
C5_ReconnectingMakesProgress ==
    (connectionState.reconnecting /\ isFarming /\ last.op \in {"error", "disconnected"})
        ~> (timers # EmptyBag \/ ~connectionState.reconnecting)

\* C6: when the reconnect function of a scheduled attempt returns false, the
\* supervisor treats the attempt as failed: it goes to Failed and publishes
\* reconnectFailed if the attempt counter has reached maxReconnectAttempts, and
\* schedules the next attempt otherwise.
C6_FalseReturnIsFailure ==
    [][(last'.op = "timer" /\ last'.ret = "false" /\ connectionState.reconnecting)
          => IF connectionState'.reconnectAttempts >= connectionState.maxReconnectAttempts
             THEN ~connectionState'.reconnecting /\ Count(out', "reconnectFailed") = 1
             ELSE Count(out', "reconnecting") = 1
                  /\ BagCardinality(timers') = BagCardinality(timers)]_vars

\* C7: startReconnect called while the supervisor is reconnecting returns false,
\* schedules no timer, publishes nothing and leaves the connection state (the
\* attempt counter and the stored reconnect function with it) unchanged.
C7_StartWhileReconnectingIsNoOp ==
    [][(last'.op = "startReconnect" /\ connectionState.reconnecting)
          => /\ last'.ret = "false"
             /\ timers' = timers
             /\ out' = <<>>
             /\ connectionState' = connectionState]_vars

C7_Witness ==
    /\ last.op = "startReconnect" /\ last.ret = "false"
    /\ connectionState.reconnecting
    /\ timers # EmptyBag

\* C8: the delay of the attempt with index a (announced as attempt a + 1),
\* 0 <= a < maxReconnectAttempts, is min(reconnectDelay * backoffMultiplier^a,
\* maxDelay), and the delay of the attempt scheduled after a failed one is not
\* smaller than the failed one's.
C8_BackoffDelay ==
    \A t \in BagToSet(timers) :
        /\ t.k - 1 \in 0..(MaxReconnectAttempts - 1)
        /\ RatEq(t.delay, ExpectedDelay(t.k - 1))
        /\ (last.op = "timer" /\ t.k = last.timer.k + 1) => RatLeq(last.timer.delay, t.delay)

C8_Witness ==
    /\ last.op = "timer" /\ last.ret = "throw"
    /\ \E t \in BagToSet(timers) :
          /\ t.k = MaxReconnectAttempts
          /\ t.delay = Rat(MaxDelay, 1)
          /\ last.timer.k = t.k - 1

\* C9: every run of the reconnect function was announced by one "reconnecting"
\* notification (k, maxReconnectAttempts, delay) published when its timer was
\* set, with the timer's delay and with k the ordinal of that run in the current
\* cycle (1 for the first, one more for each further run).
C9_AnnouncedOrdinal ==
    [][/\ last'.op = "timer" => last'.timer.k = connectionState.reconnectAttempts + 1
       /\ \A t \in BagToSet(timers') :
             PendingLike(t, timers') > PendingLike(t, timers)
                => Cardinality({i \in 1..Len(out') :
                       out'[i] = Note("reconnecting", t.k,
                                      connectionState'.maxReconnectAttempts,
                                      t.delay, "null")}) = 1]_vars

\* C10: when reconnectFailed is published the orchestrator is no longer farming
\* (isFarming() is false), and a Start Farming request made next is accepted.
C10_FailedMeansNotFarming ==
    [][/\ Count(out', "reconnectFailed") > 0 => ~isFarming'
       /\ (Published("reconnectFailed") > 0 /\ last'.op = "startFarming")
             => last'.ret = "accepted"]_vars

\* C11: an authentication failure is terminal and never retried.  In
\* SteamAccount a LoggedOn result other than OK, AccountLogonDenied and
\* AccountLoginDeniedNeedTwoFactor leaves the account not running, and from then
\* on no Connect is issued: the client is closing or disconnected and never
\* connecting again.  In steam-client.js the handler of the client's error event
\* sets no timer, leaves the connection state as it is and starts no logon.
C11_AuthFailureIsTerminal ==
    [][/\ account'.loginFailed =>
              /\ ~account'.isRunning
              /\ account'.client \in {"closing", "disconnected"}
       /\ last'.op = "error" =>
              /\ timers' = timers
              /\ connectionState' = connectionState
              /\ client'.logon = "none"]_vars

\* a login failed, Steam closed the connection and RunAsync has ended
C11_Witness ==
    /\ account.loginFailed
    /\ callbackThread.pc = "done"
    /\ account.client = "disconnected"

\* C12: the seconds added to a game's ledger are the seconds the account was
\* logged on and farming that game.  In particular no more is ever added: a
\* complete state file never credits a game with more than it held when the
\* program started plus the time Steam saw the game played since.
C12_LedgerIsTimeFarmed ==
    account.stateFile.kind = "ledger" =>
        \A g \in DOMAIN account.stateFile.data :
            account.stateFile.data[g] <= account.initial[g] + account.farmed[g]

\* the seconds of game g that a reader of the state file finds
Persisted(a, g) == GetValueOrDefault(LoadState(a.stateFile), g)

\* C13: within a run the persisted seconds of a game never decrease from one
\* state to the next, unless the game was removed because its target was
\* reached; whichever thread calls SaveState, and however the calls interleave.
C13_PersistedNeverDecreases ==
    [][\A g \in account'.games :
          account.stateFile.kind = "ledger" /\ account'.stateFile.kind = "ledger"
              => Persisted(account', g) >= Persisted(account, g)]_vars

\* C14: two checkpoints in immediate succession, no time elapsing between
\* them: the second adds nothing, the ledger after it is the ledger after the
\* first.  Checked for SaveState applied to every state the account reaches.
C14_SecondCheckpointAddsNothing ==
    SaveState(SaveState(account)).stateFile = SaveState(account).stateFile

\* a checkpoint that has seconds to add to a ledger in the file
C14_Witness ==
    /\ account.stateFile.kind = "ledger"
    /\ \E g \in DOMAIN account.farmingStartTimes :
           /\ account.now > account.farmingStartTimes[g]
           /\ Persisted(SaveState(account), g) > Persisted(account, g)
           /\ Persisted(account, g) > 0

\* task i ends its delay and checks the targets in this step
TargetCheck(i) ==
    /\ i \in DOMAIN tickTasks
    /\ tickTasks[i].pc = "delay"
    /\ tickTasks'[i].pc # "delay"

\* C15: on a tick a farmed game is reported as completed exactly when it has a
\* target entry and the seconds of its ledger are at least targetHours * 3600;
\* a game without a target entry is never reported.
C15_CompletedIffTargetReached ==
    [][\A i \in DOMAIN tickTasks : TargetCheck(i) =>
          \A g \in account.games :
              g \in tickTasks'[i].gamesToRemove <=>
                  /\ g \in DOMAIN account.targetHours
                  /\ Persisted(account, g) >= account.targetHours[g] * 3600]_vars

\* a tick reported game 1, whose ledger holds exactly the 3600 s of its 1-hour
\* target, and not game 2, which has as many seconds and no target
C15_Witness ==
    \E i \in DOMAIN tickTasks :
        /\ tickTasks[i].pc = "remove"
        /\ tickTasks[i].gamesToRemove = {1}
        /\ Persisted(account, 1) = 3600
        /\ 2 \in account.games
        /\ 2 \notin DOMAIN account.targetHours
        /\ Persisted(account, 2) >= 3600

\* C16: on a tick the checkpoint comes before the target check, so the value
\* compared with the target holds all the time accumulated up to the tick: a
\* game of a logged-on account whose ledger, with the seconds farmed since the
\* last checkpoint, reaches its target is reported on that tick.
C16_CheckpointBeforeTargetCheck ==
    [][\A i \in DOMAIN tickTasks :
          TargetCheck(i) /\ account.client = "loggedOn" =>
              \A g \in account.games \cap DOMAIN account.targetHours
                                     \cap DOMAIN account.farmingStartTimes :
                  Persisted(account, g) + (account.now - account.farmingStartTimes[g])
                          >= account.targetHours[g] * 3600
                      => g \in tickTasks'[i].gamesToRemove]_vars

\* task i ends, in this step, a tick that found games completed and others left
TrimDone(i) ==
    /\ i \in DOMAIN tickTasks
    /\ tickTasks[i].pc = "saveMove"
    /\ tickTasks'[i].pc = "loop"
    /\ tickTasks[i].gamesToRemove # {}

\* C17: when a tick finds game g completed while other games remain, then after
\* the tick g is not among the games farmed, the games sent to Steam are the
\* remaining ones, g has no entry in the persisted ledger, and every remaining
\* game still has its entry, with no fewer seconds than the tick found.
C17_Trimming ==
    [][\A i \in DOMAIN tickTasks : TrimDone(i) =>
          /\ \A g \in tickTasks[i].gamesToRemove :
                 /\ g \notin account'.games
                 /\ g \notin DOMAIN LoadState(account'.stateFile)
          /\ account'.client = "loggedOn" => account'.gamesPlayed = account'.games
          /\ \A h \in account'.games \cap DOMAIN tickTasks[i].loaded :
                 /\ h \in DOMAIN LoadState(account'.stateFile)
                 /\ Persisted(account', h) >= tickTasks[i].loaded[h]]_vars

\* a tick removes the last game in this step
RemovesLastGame == account.games # {} /\ account'.games = {}

\* every game left has a target and has reached it in the ledger; the account is
\* logged on and a tick is due before the clock stops
AllTargetsReached ==
    /\ account.client = "loggedOn"
    /\ account.isRunning
    /\ ~account.cancelled
    /\ account.games # {}
    /\ \A g \in account.games :
           /\ g \in DOMAIN account.targetHours
           /\ Persisted(account, g) >= account.targetHours[g] * 3600
    /\ \E i \in DOMAIN tickTasks :
           /\ tickTasks[i].pc = "delay"
           /\ tickTasks[i].wake <= MaxMinutes * TickDelay

\* the account lost its session, or was cancelled, before it stopped by itself
Interrupted ==
    \/ account.cancelled
    \/ account.isRunning /\ account.client # "loggedOn"

\* the account has stopped: RunAsync is over, the client is disconnected
AccountStopped ==
    /\ ~account.isRunning
    /\ callbackThread.pc = "done"
    /\ account.client = "disconnected"

C19_NoTickAfterStop ==
    [][callbackThread.pc = "done" =>
          \A i \in DOMAIN tickTasks : ~TargetCheck(i)]_vars

\* C20: every write of the ledger file goes to a temp file that is then renamed,
\* so a crash at any point leaves the state file with a complete ledger, the
\* previous one or the new one: the state file is never a file that was opened
\* for writing and not written yet.
C20_LedgerWritesAreAtomic ==
    account.stateFile.kind # "partial"

\* C21: a saveSession that is interrupted before it completes leaves the value
\* that loadSession returns as it was: the value saved before, or null; a
\* partly written token is never returned.
C21_InterruptedSaveKeepsSession ==
    cache.crashed => LoadSession(cache.file) = cache.committed

\* the session file holds a text that is not a session
Corrupt(file) == file.exists /\ JsonParse(file.text).threw

HoldsToken(file, accountName) ==
    /\ file.exists
    /\ ~Corrupt(file)
    /\ JsonParse(file.text).value.sessionKey # ""
    /\ JsonParse(file.text).value.accountName = accountName

\* C23: login sends the cached session token, and neither the password nor a
\* one-time code, exactly when the cache holds a token whose account name is
\* the one given; otherwise it sends the password, and with it a one-time code
\* exactly when the shared secret is longer than 5 characters.
C23_LoginSendsTokenOrPassword ==
    cache.op = "login" =>
        IF HoldsToken(cache.file, cache.args.accountName)
        THEN /\ DOMAIN cache.sent = {"accountName", "sessionKey"}
             /\ cache.sent.sessionKey = JsonParse(cache.file.text).value.sessionKey
        ELSE /\ "password" \in DOMAIN cache.sent
             /\ "sessionKey" \notin DOMAIN cache.sent
             /\ "twoFactorCode" \in DOMAIN cache.sent <=> Len(cache.args.sharedSecret) > 5

\* a login of bob with a long shared secret while the cache holds alice's token
C23_Witness ==
    /\ cache.op = "login"
    /\ cache.args.accountName = "bob"
    /\ Len(cache.args.sharedSecret) > 5
    /\ HoldsToken(cache.file, "alice")
    /\ "twoFactorCode" \in DOMAIN cache.sent

\* C24: whenever the provider reports that the cached session token is no
\* longer valid, by the sessionExpired event or by refusing a logon made with
\* the token, the cache entry is deleted, so that the next login or reconnect
\* does not send the token again.
C24_InvalidTokenIsDeleted ==
    [][/\ last'.op = "sessionExpired" => sessionFile' = "none"
       /\ last'.op = "error" /\ client.logon = "session" => sessionFile' = "none"]_vars

\* the handlers of event in the registry, none for an event it does not have
HandlersOf(b, event) ==
    IF event \in DOMAIN b.eventHandlers THEN b.eventHandlers[event] ELSE <<>>

\* C25: trigger(event, args) invokes the handlers registered for the event,
\* each with the arguments given, in the order in which they were subscribed,
\* and has invoked them all when it returns; no handler of another event is
\* invoked.
C25_TriggerInSubscriptionOrder ==
    [][bus'.op = "trigger" =>
          bus'.log = [i \in 1..Len(HandlersOf(bus, bus'.args.event)) |->
                         [handler |-> HandlersOf(bus, bus'.args.event)[i],
                          arg |-> bus'.args.arg]]]_vars

\* a trigger invoked two different handlers while the other event had handlers
C25_Witness ==
    /\ bus.op = "trigger"
    /\ Len(bus.log) >= 2
    /\ bus.log[1].handler # bus.log[2].handler
    /\ \E e \in RegistryEvents \ {bus.args.event} : bus.eventHandlers[e] # <<>>

\* C26: when a handler throws during a dispatch, the exception does not reach
\* the caller of trigger, and every handler subscribed after that handler is
\* still invoked.
C26_ThrowingHandlerIsContained ==
    [][bus'.op = "trigger" =>
          /\ ~bus'.propagated
          /\ \A i, j \in 1..Len(HandlersOf(bus, bus'.args.event)) :
                 i < j /\ HandlersOf(bus, bus'.args.event)[i] = "throws" =>
                     /\ j \in DOMAIN bus'.log
                     /\ bus'.log[j].handler = HandlersOf(bus, bus'.args.event)[j]]_vars

\* a dispatch whose first handler threw went on to the second
C26_Witness ==
    /\ bus.op = "trigger"
    /\ Len(bus.log) >= 2
    /\ bus.log[1].handler = "throws"
    /\ bus.log[2].handler # "throws"

\* C27: the removal function that on returned is idempotent: called a second
\* time it leaves the registry as it is, whatever was subscribed meanwhile,
\* the same handler for the same event included.
C27_RemovalIsIdempotent ==
    [][bus'.op = "remove" /\ bus'.args.id \in bus.used =>
          bus'.eventHandlers = bus.eventHandlers]_vars

\* C30: when the login needs a one-time code and nobody supplies one, the login
\* does not stay suspended forever: the wait for the code ends by itself and
\* the callback thread goes on, so that the account, and a shutdown that
\* waits for it, makes progress.
C30_CodePromptTimesOut ==
    (callbackThread.pc = "readLine") ~> (callbackThread.pc # "readLine")

\* the ledger of account j of the fleet
LedgerOf(f, j) == LoadState(f.files[StateFile(Username(j))])

\* every game account j has left has a target that its ledger has reached; the
\* account is logged on and a tick is due before the clock stops
FleetAllTargetsReached(j) ==
    /\ fleet.accounts[j].a.client = "loggedOn"
    /\ fleet.accounts[j].a.isRunning
    /\ ~fleet.cancelled
    /\ fleet.accounts[j].a.games # {}
    /\ \A g \in fleet.accounts[j].a.games :
           /\ g \in DOMAIN fleet.accounts[j].a.targetHours
           /\ GetValueOrDefault(LedgerOf(fleet, j), g)
                  >= fleet.accounts[j].a.targetHours[g] * SecondsPerHour
    /\ \E k \in DOMAIN fleet.accounts[j].ticks :
           /\ fleet.accounts[j].ticks[k].pc = "delay"
           /\ fleet.accounts[j].ticks[k].wake <= MaxFleetMinutes * TickDelay

\* account j lost its session, or Ctrl+C was pressed
FleetInterrupted(j) ==
    \/ fleet.cancelled
    \/ fleet.accounts[j].a.isRunning /\ fleet.accounts[j].a.client # "loggedOn"

\* account j has stopped: its RunAsync is over, its client disconnected
FleetStopped(j) ==
    /\ ~fleet.accounts[j].a.isRunning
    /\ fleet.accounts[j].t.pc = "done"
    /\ fleet.accounts[j].a.client = "disconnected"

\* C28: the accounts of the fleet run independently.  A step of a thread of
\* account i (a login that fails, a disconnect, a reconnect, a tick that
\* reaches the targets, the account stopping) leaves the running flag, the
\* games broadcast, the start times and the ledger of every other account j
\* as they were, and account j goes on: when its targets are reached it
\* stops, whatever the other accounts do or fail to do.
C28_AccountsAreIndependent ==
    /\ [][\A i, j \in Accounts :
            fleet'.last.i = i /\ j # i =>
                /\ fleet'.accounts[j].a.isRunning = fleet.accounts[j].a.isRunning
                /\ fleet'.accounts[j].a.gamesPlayed = fleet.accounts[j].a.gamesPlayed
                /\ fleet'.accounts[j].a.farmingStartTimes
                       = fleet.accounts[j].a.farmingStartTimes
                /\ LedgerOf(fleet', j) = LedgerOf(fleet, j)]_vars
    /\ \A j \in Accounts :
          FleetAllTargetsReached(j) ~> (FleetStopped(j) \/ FleetInterrupted(j))

\* the login of one account has just failed and the account has stopped, while
\* another account is logged on, plays its games and has a tick due that will
\* find its targets reached
C28_Witness ==
    \E i, j \in Accounts :
        /\ i # j
        /\ fleet.last = [op |-> "LoginFailed", i |-> i]
        /\ FleetStopped(i)
        /\ fleet.accounts[j].a.gamesPlayed = AppIds
        /\ DOMAIN fleet.accounts[j].a.farmingStartTimes = AppIds
        /\ FleetAllTargetsReached(j)

\* C29: when Ctrl+C is pressed at any moment, also while Main is still
\* starting the accounts a delay apart, every account whose RunAsync has begun
\* writes its final checkpoint and disconnects, and the process ends only
\* after they all have.
C29_ShutdownWaitsForEveryAccount ==
    fleet.main = "exited" =>
        \A i \in Accounts :
            fleet.accounts[i].t.pc \in {"none", "start", "canceled", "done"}

\* the callback thread is inside OnDisconnected, before Thread.Sleep
InOnDisconnected ==
    \/ InSaveState(callbackThread) /\ callbackThread.after = "reset"
    \/ callbackThread.pc = "reset"

\* C31: automatic reconnection.  Every Disconnected callback reaches its fixed
\* wait and the wait ends; when it ends the handler asks for exactly one new
\* connection if the account is running and for none if it is not; and no other
\* step of the account than the start of RunAsync asks for a connection.
C31_ReconnectAfterDisconnect ==
    /\ [][callbackThread.pc = "sleep" /\ callbackThread'.pc # "sleep" =>
            IF account.isRunning
            THEN account'.client = "connecting"
            ELSE account'.client = account.client /\ account.client = "disconnected"]_vars
    /\ [][account'.client = "connecting" /\ account.client # "connecting" =>
            callbackThread.pc \in {"start", "sleep"}]_vars
    /\ InOnDisconnected ~> (callbackThread.pc = "sleep")
    /\ (callbackThread.pc = "sleep") ~> (callbackThread.pc = "loop")

\* the account was logged on, lost the connection and, still running, has asked
\* for a new one
C31_Witness ==
    /\ account.isRunning
    /\ account.client = "connecting"
    /\ tickTasks # <<>>
    /\ callbackThread.pc = "loop"

\* C32: a session token cached for one account is never sent in a login made
\* for another account.  Whenever login or reconnect sends a token, the token
\* was saved for the account that is being logged in: the account of the last
\* login.
C32_TokenOnlyForItsAccount ==
    /\ cache.op \in {"login", "reconnect"}
    /\ "sessionKey" \in DOMAIN cache.sent
    /\ cache.lastLoginDetails # NoArgs
    => LoadSession(cache.file).accountName = cache.lastLoginDetails.accountName

\* thread t ends SaveState in this step with File.Move throwing: the temp file
\* is left as it was and the state file is not replaced
SaveFails(t, u) ==
    /\ t.pc = "saveMove"
    /\ u.pc # "saveMove"
    /\ account'.tempFile = account.tempFile
    /\ account'.stateFile = account.stateFile

\* what the next checkpoint would write for the games t measured is no less
\* than what t was about to write: the ledger and the time since the start
\* times cover the interval t measured
IntervalKept(t) ==
    \A g \in DOMAIN t.state \cap DOMAIN account'.farmingStartTimes :
        Persisted(account', g) + (account'.now - account'.farmingStartTimes[g])
            >= t.state[g]

\* C33: when the file write of a checkpoint fails the run goes on and the
\* interval the checkpoint measured is not lost: the next checkpoint that
\* succeeds writes a ledger that includes it.
C33_FailedCheckpointLosesNothing ==
    [][/\ SaveFails(callbackThread, callbackThread') => IntervalKept(callbackThread)
       /\ \A i \in DOMAIN tickTasks :
            i \in DOMAIN tickTasks' /\ SaveFails(tickTasks[i], tickTasks'[i])
                => IntervalKept(tickTasks[i])]_vars

\* C34: over any sequence of startReconnect, stopReconnect, reset, timer firings
\* and failures, the supervisor has at most one reconnection timer pending.
C34_AtMostOneTimerPending ==
    BagCardinality(timers) <= 1


\* C35: in every reachable state reconnectAttempts <= maxReconnectAttempts, and
\* a timer runs the reconnect function only while the supervisor is
\* reconnecting: never after the cycle failed, succeeded or was stopped, unless
\* startReconnect was called again.
C35_AttemptsBoundedAndOnlyWhileReconnecting ==
    /\ [](connectionState.reconnectAttempts <= connectionState.maxReconnectAttempts)
    /\ [][last'.op = "timer" => connectionState.reconnecting]_vars


\* getStatus (steam-client.js 353-361): the flags it reports
GetStatus == [connected    |-> connectionState.connected,
              reconnecting |-> connectionState.reconnecting,
              loggedOn     |-> client.steamID,
              currentGames |-> currentGames]

\* C36: over every sequence of loggedOn, disconnected, sessionExpired and timer
\* events, getStatus never reports connected and reconnecting both true.
C36_NeverConnectedAndReconnecting ==
    ~(GetStatus.connected /\ GetStatus.reconnecting)


\* how many times handler x is in the list
Occurrences(list, x) == Cardinality({i \in DOMAIN list : list[i] = x})

\* C37: during one trigger(event), every handler that was subscribed to the
\* event when the trigger began and was not removed before its turn is invoked
\* exactly once, even when a handler invoked earlier in the dispatch removes
\* itself.  The handlers of HandlerFunctions are removed by no handler of
\* their own event, so each is invoked as many times as it was subscribed.
C37_DispatchUnderRemoval ==
    [][bus'.op = "trigger" =>
          \A x \in HandlerFunctions :
              Occurrences([i \in DOMAIN bus'.log |-> bus'.log[i].handler], x)
                  = Occurrences(HandlersOf(bus, bus'.args.event), x)]_vars


\* the CheckTargets tasks that have not returned
ActiveLoops == {i \in DOMAIN tickTasks : tickTasks[i].pc # "done"}

\* C38: at any time at most one CheckTargets loop of the account is active,
\* over any number of disconnect and re-login cycles.
C38_AtMostOneTickLoop ==
    Cardinality(ActiveLoops) <= 1


\* the games CheckTargets removed because their target was reached (264-268);
\* no other code removes a game from _config.Games
RemovedGames == AppIds \ account.games

\* C39: a game that was removed because its target was reached is, for the
\* rest of the run, never again in a set of games sent to Steam and never
\* again given a start timestamp, after a disconnect and a re-login too.
C39_RemovedGameStaysRemoved ==
    /\ [](\A g \in RemovedGames : g \notin DOMAIN account.farmingStartTimes)
    /\ [][\A g \in RemovedGames :
              g \in account'.gamesPlayed => g \in account.gamesPlayed]_vars


\* reset() was called: by a caller of the connection manager, or by the public
\* login (steam-client.js 369-376) that startFarming makes
ResetCalled ==
    \/ last'.op = "reset"
    \/ last'.op = "startFarming" /\ last'.ret = "accepted"

\* C40: after reset() connected and reconnecting are false, reconnectAttempts is
\* 0, lastDisconnectReason and reconnectFunc are null, and maxReconnectAttempts,
\* reconnectDelay and accountName are as they were; the public login makes this
\* reset and then issues the login.  The callbacks are kept in an object of
\* their own (connection-manager.js 21-25) that reset does not touch; they are
\* registered throughout.
C40_ResetRestoresIdle ==
    [][ResetCalled =>
          /\ ~connectionState'.connected
          /\ ~connectionState'.reconnecting
          /\ connectionState'.reconnectAttempts = 0
          /\ connectionState'.lastDisconnectReason = "null"
          /\ connectionState'.reconnectFunc = "null"
          /\ connectionState'.maxReconnectAttempts = connectionState.maxReconnectAttempts
          /\ connectionState'.reconnectDelay = connectionState.reconnectDelay
          /\ connectionState'.accountName = connectionState.accountName
          /\ last'.op = "startFarming" =>
                 /\ lastLoginDetails' = "set"
                 /\ client'.logon \in {"session", "password"}]_vars

\* a login made while an earlier session of the account was reconnecting: the
\* account name is kept, the reconnection is over and its retry still pending
C40_Witness ==
    /\ last.op = "startFarming" /\ last.ret = "accepted"
    /\ connectionState.accountName = "account"
    /\ ~connectionState.reconnecting
    /\ \E t \in BagToSet(timers) : t.stopped
    /\ client.logon \in {"session", "password"}
=============================================================================
